---- MODULE Spec2Model ----
(***************************************************************************)
(* A model of the news-trading backtest engine: the nearest-timestamp      *)
(* price resolver, the event filter, the trade builder, the metrics the    *)
(* optimizer ranks by, and the parameter sweep.                            *)
(*                                                                         *)
(* Floating point values are modelled as exact rationals extended with    *)
(* the IEEE specials: a value is a record [k, n, d] with k = "fin" (the    *)
(* rational n/d in lowest terms, d > 0), k = "inf" (n = 1 or -1 is the     *)
(* sign) or k = "nan".  Indices are 0-based as in the source.              *)
(***************************************************************************)
EXTENDS Integers, Sequences, FiniteSets, TLC

VARIABLES
    pc,              \* which entry point has run: "start" or "done"
    price_df,        \* the price table: rows [unix_timestamp, close]
    news_df,         \* the news table: rows [row, unix_timestamp, token]
    selected_crypto, \* the requested asset
    trading_costs,   \* the costs configuration, or NoCosts
    window,          \* signal window, minutes
    threshold,       \* exit threshold, minutes
    timestamps,      \* the query timestamps handed to the resolver
    combinations,    \* the (window, threshold) pairs of a sweep
    optimization_metric, \* the name of the objective of a sweep
    trade_returns,   \* the returns list handed to the metrics engine
    selected_windows,    \* the window candidates of a sweep, minutes
    selected_thresholds, \* the threshold candidates of a sweep, minutes
    price_results,   \* outcome of get_prices_at_timestamps
    crypto_news,     \* outcome of filter_crypto_news
    price_df_sorted, \* the sorted price series an entry point built
    backtest,        \* outcome of execute_backtest_strategy
    optimization,    \* outcome of run_parameter_optimization
    metrics,         \* outcome of calculate_performance_metrics
    report,          \* outcome of print_performance_report
    assessment,      \* outcome of is_strategy_profitable
    metric_value     \* the objective the optimizer reads from the metrics

\* what the caller supplies; no entry point assigns to it
inputs == <<price_df, news_df, selected_crypto, trading_costs, window, threshold,
            timestamps, combinations, optimization_metric, trade_returns,
            selected_windows, selected_thresholds>>

\* what the metrics engine and its consumers produce
reporting == <<metrics, report, assessment, metric_value>>

vars == <<pc, inputs, price_results, crypto_news, price_df_sorted, backtest,
          optimization, reporting>>

(***************************************************************************)
(* Bounds of the model.                                                    *)
(***************************************************************************)
MaxPrices == 3
MaxQueries == 2
MaxNews == 3
MaxEvents == 2
MaxCombos == 2

(***************************************************************************)
(* Floating point arithmetic.                                              *)
(***************************************************************************)
AbsInt(n) == IF n < 0 THEN -n ELSE n

SignInt(n) == IF n < 0 THEN -1 ELSE IF n > 0 THEN 1 ELSE 0

RECURSIVE GCD(_, _)
GCD(a, b) == IF b = 0 THEN a ELSE GCD(b, a % b)

Fin(n, d) ==
    LET s == IF d < 0 THEN -1 ELSE 1
        g == GCD(AbsInt(n), AbsInt(d))
    IN  [k |-> "fin", n |-> (s * n) \div g, d |-> (s * d) \div g]

Int2F(n) == [k |-> "fin", n |-> n, d |-> 1]

NaN == [k |-> "nan", n |-> 0, d |-> 1]

Inf(s) == [k |-> "inf", n |-> s, d |-> 1]

IsNaN(x) == x.k = "nan"

IsFinite(x) == x.k = "fin"

notna(x) == ~IsNaN(x)

Neg(x) == [x EXCEPT !.n = -x.n]

Add(x, y) ==
    CASE IsNaN(x) \/ IsNaN(y) -> NaN
      [] x.k = "inf" /\ y.k = "inf" -> IF x.n = y.n THEN x ELSE NaN
      [] x.k = "inf" -> x
      [] y.k = "inf" -> y
      [] x.d = y.d -> Fin(x.n + y.n, x.d)
      [] OTHER ->
            LET g == GCD(x.d, y.d)
            IN  Fin(x.n * (y.d \div g) + y.n * (x.d \div g), (x.d \div g) * y.d)

Sub(x, y) == Add(x, Neg(y))

Mul(x, y) ==
    CASE IsNaN(x) \/ IsNaN(y) -> NaN
      [] x.k = "inf" \/ y.k = "inf" ->
            IF x.n = 0 \/ y.n = 0 THEN NaN
            ELSE Inf(SignInt(x.n) * SignInt(y.n))
      [] OTHER ->
            LET g1 == GCD(AbsInt(x.n), y.d)
                g2 == GCD(AbsInt(y.n), x.d)
            IN  Fin((x.n \div g1) * (y.n \div g2), (x.d \div g2) * (y.d \div g1))

Div(x, y) ==
    CASE IsNaN(x) \/ IsNaN(y) -> NaN
      [] x.k = "inf" /\ y.k = "inf" -> NaN
      [] x.k = "inf" -> Inf(x.n * (IF y.n < 0 THEN -1 ELSE 1))
      [] y.k = "inf" -> Int2F(0)
      [] y.n = 0 -> IF x.n = 0 THEN NaN ELSE Inf(SignInt(x.n))
      [] OTHER -> Fin(x.n * y.d, x.d * y.n)

AbsF(x) == [x EXCEPT !.n = AbsInt(x.n)]

\* x < y; false when either side is NaN
LT(x, y) ==
    CASE IsNaN(x) \/ IsNaN(y) -> FALSE
      [] x.k = "inf" /\ y.k = "inf" -> x.n < y.n
      [] x.k = "inf" -> x.n < 0
      [] y.k = "inf" -> y.n > 0
      [] x.d = y.d -> x.n < y.n
      [] OTHER ->
            LET g == GCD(x.d, y.d)
            IN  x.n * (y.d \div g) < y.n * (x.d \div g)

LE(x, y) == ~IsNaN(x) /\ ~IsNaN(y) /\ ~LT(y, x)

GT(x, y) == LT(y, x)

\* numpy.minimum: NaN if either side is NaN
Minimum(x, y) ==
    IF IsNaN(x) \/ IsNaN(y) THEN NaN ELSE IF LT(y, x) THEN y ELSE x

\* numpy.maximum: NaN if either side is NaN
Maximum(x, y) ==
    IF IsNaN(x) \/ IsNaN(y) THEN NaN ELSE IF LT(x, y) THEN y ELSE x

MaxInt(a, b) == IF a >= b THEN a ELSE b

MinInt(a, b) == IF a <= b THEN a ELSE b

\* 0-based element access
At0(s, i) == s[i + 1]

\* a local variable: v is evaluated once and F applied to its value
With(v, F(_)) == CHOOSE y \in {F(x) : x \in {v}} : TRUE

\* the index error a 0-based access raises
OutOfBounds(s, i) == i < -Len(s) \/ i >= Len(s)

(***************************************************************************)
(* Nearest-timestamp price resolver.                                       *)
(***************************************************************************)
DefaultTolerance == 120

DefaultWindow == 1

DefaultThreshold == 10

SecondsPerMinute == 60

\* the order numpy sorts and searches floats by: NaN after everything
SortsBefore(x, v) == LT(x, v) \/ (IsNaN(v) /\ ~IsNaN(x))

RECURSIVE BinSearch(_, _, _, _)
BinSearch(a, v, lo, hi) ==
    IF lo >= hi THEN lo
    ELSE LET mid == lo + ((hi - lo) \div 2)
         IN  IF SortsBefore(Int2F(At0(a, mid)), v)
             THEN BinSearch(a, v, mid + 1, hi)
             ELSE BinSearch(a, v, lo, mid)

\* numpy.searchsorted(a, v), side 'left'
searchsorted(a, v) == BinSearch(a, v, 0, Len(a))

\* numpy.clip(x, lo, hi)
clip(x, lo, hi) == MinInt(MaxInt(x, lo), hi)

indices(price_timestamps, t) ==
    clip(searchsorted(price_timestamps, t), 0, Len(price_timestamps) - 1)

left_indices(price_timestamps, t) == MaxInt(indices(price_timestamps, t) - 1, 0)

right_indices(price_timestamps, t) == indices(price_timestamps, t)

left_diffs(price_timestamps, t) ==
    AbsF(Sub(t, Int2F(At0(price_timestamps, left_indices(price_timestamps, t)))))

right_diffs(price_timestamps, t) ==
    AbsF(Sub(t, Int2F(At0(price_timestamps, right_indices(price_timestamps, t)))))

\* mutant: a tie goes to the later point
closest_indices_TieRight(price_timestamps, t) ==
    IF LT(left_diffs(price_timestamps, t), right_diffs(price_timestamps, t))
    THEN left_indices(price_timestamps, t)
    ELSE right_indices(price_timestamps, t)

closest_indices(price_timestamps, t) ==
    IF LE(left_diffs(price_timestamps, t), right_diffs(price_timestamps, t))
    THEN left_indices(price_timestamps, t)
    ELSE right_indices(price_timestamps, t)

min_diffs(price_timestamps, t) ==
    Minimum(left_diffs(price_timestamps, t), right_diffs(price_timestamps, t))

valid_mask(price_timestamps, t, tolerance) ==
    LE(min_diffs(price_timestamps, t), Int2F(tolerance))

\* the fancy indexing of lines 31-32 raises IndexError on an empty series
FindRaises(price_timestamps, target_timestamps) ==
    \E i \in 1..Len(target_timestamps) :
        \/ OutOfBounds(price_timestamps,
                       left_indices(price_timestamps, target_timestamps[i]))
        \/ OutOfBounds(price_timestamps,
                       right_indices(price_timestamps, target_timestamps[i]))

\* the prices array of find_closest_prices (defined when it does not raise)
find_closest_prices(prices, target_timestamps, tolerance) ==
    LET price_timestamps == [i \in 1..Len(prices) |-> prices[i].unix_timestamp]
    IN  [i \in 1..Len(target_timestamps) |->
            IF valid_mask(price_timestamps, target_timestamps[i], tolerance)
            THEN At0(prices,
                     closest_indices(price_timestamps, target_timestamps[i])).close
            ELSE NaN]

Offset(ts, minutes) ==
    [i \in 1..Len(ts) |-> Add(ts[i], Mul(minutes, Int2F(SecondsPerMinute)))]

EmptyFrame == [status |-> "ok", columns |-> FALSE, rows |-> <<>>]

Raised(e) == [status |-> e, columns |-> FALSE, rows |-> <<>>]

get_prices_at_timestamps(prices, ts, w, th) ==
    IF Len(ts) = 0 THEN EmptyFrame
    ELSE LET price_timestamps == [i \in 1..Len(prices) |-> prices[i].unix_timestamp]
             timestamps_window == Offset(ts, w)
             timestamps_threshold == Offset(ts, th)
         IN  IF \/ FindRaises(price_timestamps, ts)
                \/ FindRaises(price_timestamps, timestamps_window)
                \/ FindRaises(price_timestamps, timestamps_threshold)
             THEN Raised("IndexError")
             ELSE LET prices_current == find_closest_prices(prices, ts, DefaultTolerance)
                      prices_window ==
                          find_closest_prices(prices, timestamps_window, DefaultTolerance)
                      prices_threshold ==
                          find_closest_prices(prices, timestamps_threshold, DefaultTolerance)
                  IN  [status |-> "ok", columns |-> TRUE,
                       rows |-> [i \in 1..Len(ts) |->
                                    [unix_timestamp |-> ts[i],
                                     price_current |-> prices_current[i],
                                     price_window |-> prices_window[i],
                                     price_threshold |-> prices_threshold[i]]]]

(***************************************************************************)
(* Event filter.  A string is a sequence of characters.                    *)
(***************************************************************************)
LowerCase ==
    <<"a", "b", "c", "d", "e", "f", "g", "h", "i", "j", "k", "l", "m",
      "n", "o", "p", "q", "r", "s", "t", "u", "v", "w", "x", "y", "z">>

UpperCase ==
    <<"A", "B", "C", "D", "E", "F", "G", "H", "I", "J", "K", "L", "M",
      "N", "O", "P", "Q", "R", "S", "T", "U", "V", "W", "X", "Y", "Z">>

UpperChar(c) ==
    IF \E i \in 1..Len(LowerCase) : LowerCase[i] = c
    THEN UpperCase[CHOOSE i \in 1..Len(LowerCase) : LowerCase[i] = c]
    ELSE c

\* str.upper()
upper(str) == [i \in 1..Len(str) |-> UpperChar(str[i])]

\* mutant: the token is matched as written
upper_Identity(str) == str

\* the case normalisation filter_crypto_news applies to the token
normalize(str) == upper(str)

\* a token that is present, as a value of the token column
Text(str) == [missing |-> FALSE, text |-> str]

\* astype(str): a missing token becomes the text "nan"
astype_str(token) == IF token.missing THEN <<"n", "a", "n">> ELSE token.text

\* the pattern matches the text at 0-based position p
MatchesAt(str, pat, p) ==
    /\ p + Len(pat) <= Len(str)
    /\ \A i \in 1..Len(pat) : str[p + i] = pat[i]

\* str.contains('P1|P2'): some alternative matches at some position
RECURSIVE SearchFrom(_, _, _)
SearchFrom(str, pats, p) ==
    IF p > Len(str) THEN FALSE
    ELSE IF \E i \in 1..Len(pats) : MatchesAt(str, pats[i], p) THEN TRUE
    ELSE SearchFrom(str, pats, p + 1)

contains(str, pats) == SearchFrom(str, pats, 0)

Supported(asset) == asset \in {"BTC", "ETH"}

crypto_patterns(asset) ==
    IF asset = "BTC"
    THEN << <<"B", "T", "C">>, <<"B", "I", "T", "C", "O", "I", "N">> >>
    ELSE << <<"E", "T", "H">>, <<"E", "T", "H", "E", "R", "E", "U", "M">> >>

token_mask(r, asset) == contains(normalize(astype_str(r.token)), crypto_patterns(asset))

timestamp_mask(r) == notna(r.unix_timestamp)

filter_mask(r, asset) == token_mask(r, asset) /\ timestamp_mask(r)

Permutations1(n) == {f \in [1..n -> 1..n] : \A i, j \in 1..n : f[i] = f[j] => i = j}

\* the sort key by='unix_timestamp': a float column in the news table (it can
\* hold NaN), an integer column in the price table
by_unix_timestamp(r) ==
    IF "close" \in DOMAIN r THEN Int2F(r.unix_timestamp) ELSE r.unix_timestamp

\* rows in ascending order of the key, missing keys last
InKeyOrder(df) ==
    \A i \in 1..(Len(df) - 1) :
        \/ IsNaN(by_unix_timestamp(df[i + 1]))
        \/ LE(by_unix_timestamp(df[i]), by_unix_timestamp(df[i + 1]))

\* the rows with a missing key keep their order (they are appended as found)
MissingInOrder(df) ==
    \A i, j \in 1..Len(df) :
        (i < j /\ IsNaN(by_unix_timestamp(df[i])) /\ IsNaN(by_unix_timestamp(df[j])))
            => df[i].row < df[j].row

\* mutant: the rows are used in the order given
sort_values_AsGiven(df) == {df}

\* DataFrame.sort_values(by='unix_timestamp') with the default kind
\* 'quicksort', which is not a stable sort: every order of the rows that is
\* ascending in the key is an outcome, rows with equal keys in any order.
sort_values(df) ==
    {s \in {[i \in 1..Len(df) |-> df[f[i]]] : f \in Permutations1(Len(df))} :
        InKeyOrder(s) /\ MissingInOrder(s)}

\* filter_crypto_news on one outcome of its sort
filter_crypto_news(news_df_sorted, asset) ==
    IF ~Supported(asset) THEN Raised("ValueError")
    ELSE LET keep(r) == filter_mask(r, asset)
         IN  [status |-> "ok", columns |-> TRUE, rows |-> SelectSeq(news_df_sorted, keep)]

(***************************************************************************)
(* Trade builder.                                                          *)
(***************************************************************************)
\* trading_costs=None
NoCosts == [given |-> FALSE, dict |-> <<>>]

\* dict.get(key, default)
dict_get(d, key, default) == IF key \in DOMAIN d THEN d[key] ELSE default

total_cost(costs) ==
    Add(dict_get(costs.dict, "transaction_cost", Int2F(0)),
        dict_get(costs.dict, "slippage", Int2F(0)))

price_change(r, field) == Div(Sub(field, r.price_current), r.price_current)

\* mutant: a flat window counts as a rise
position_ZeroIsLong(change) == IF GT(change, Int2F(0)) \/ change = Int2F(0) THEN 1 ELSE -1

\* numpy.where(price_change_window > 0, 1, -1)
position(change) == IF GT(change, Int2F(0)) THEN 1 ELSE -1

\* mutant: the cost follows the sign of the position
cost_adjustment_Signed(costs, pos) ==
    Mul(Mul(Int2F(2), total_cost(costs)), Int2F(pos))

\* 2 * total_cost * |position|
cost_adjustment(costs, pos) ==
    Mul(Mul(Int2F(2), total_cost(costs)), AbsF(Int2F(pos)))

trade_return(costs, pos, change_threshold) ==
    IF costs.given
    THEN Sub(Mul(Int2F(pos), change_threshold), cost_adjustment(costs, pos))
    ELSE Mul(Int2F(pos), change_threshold)

\* the columns calculate_trading_returns adds to one row
TradeOf(r, costs, change_window, change_threshold, pos) ==
    [row |-> r.row, unix_timestamp |-> r.unix_timestamp, token |-> r.token,
     price_current |-> r.price_current, price_window |-> r.price_window,
     price_threshold |-> r.price_threshold,
     price_change_window |-> change_window,
     position |-> pos,
     price_change_threshold |-> change_threshold,
     trade_return |-> trade_return(costs, pos, change_threshold)]

calculate_trading_returns(rows, costs) ==
    [i \in 1..Len(rows) |->
        With(price_change(rows[i], rows[i].price_window), LAMBDA change_window :
            TradeOf(rows[i], costs, change_window,
                    price_change(rows[i], rows[i].price_threshold),
                    position(change_window)))]

\* the labels 0, 1, ... that index a frame built from arrays
RangeIndex(n) == [i \in 1..n |-> i - 1]

\* mutant: the events keep the labels they had in the news table
reset_index_KeepsLabels(events) == [i \in 1..Len(events) |-> events[i].row]

\* crypto_news.reset_index(drop=True): the labels of the events after the reset
reset_index(events) == RangeIndex(Len(events))

\* the row of the price results with the label, missing prices when there is none
loc(price_rows, label) ==
    IF \E j \in 1..Len(price_rows) : RangeIndex(Len(price_rows))[j] = label
    THEN price_rows[CHOOSE j \in 1..Len(price_rows) :
                        RangeIndex(Len(price_rows))[j] = label]
    ELSE [price_current |-> NaN, price_window |-> NaN, price_threshold |-> NaN]

\* pd.concat([crypto_news.reset_index(drop=True), price_results[...]], axis=1):
\* the price columns are joined to the events on the labels of the rows.  The
\* field row is the label the event had in the news table; it is kept to tell
\* the events apart and no operation reads it after the reset.
concat(events, price_rows) ==
    [i \in 1..Len(events) |->
        With(loc(price_rows, reset_index(events)[i]), LAMBDA prices :
            [row |-> events[i].row, unix_timestamp |-> events[i].unix_timestamp,
             token |-> events[i].token,
             price_current |-> prices.price_current,
             price_window |-> prices.price_window,
             price_threshold |-> prices.price_threshold])]

\* mutant: only the entry price is required
price_mask_CurrentOnly(r) == notna(r.price_current)

\* notna().all(axis=1) over the three price columns
price_mask(r) ==
    notna(r.price_current) /\ notna(r.price_window) /\ notna(r.price_threshold)

RECURSIVE lstrip(_)
lstrip(str) ==
    IF Len(str) > 0 /\ Head(str) = " " THEN lstrip(Tail(str)) ELSE str

RECURSIVE rstrip(_)
rstrip(str) ==
    IF Len(str) > 0 /\ str[Len(str)] = " "
    THEN rstrip(SubSeq(str, 1, Len(str) - 1)) ELSE str

\* str.strip()
strip(str) == rstrip(lstrip(str))

\* the cleaned token column
clean_token(rows) ==
    [i \in 1..Len(rows) |->
        [rows[i] EXCEPT !.token = Text(strip(upper(astype_str(rows[i].token))))]]

result_columns(w, th) ==
    IF w = Int2F(DefaultWindow) /\ th = Int2F(DefaultThreshold)
    THEN <<"unix_timestamp", "token", "price_current", "price_1min", "price_10min",
           "price_change_1min", "position", "trade_return">>
    ELSE <<"unix_timestamp", "token", "price_current", "price_window",
           "price_threshold", "price_change_window", "position", "trade_return">>

\* mutant: the soft outcomes are reported as an error
EmptyResult_Raises(swallowed) ==
    [raised |-> "NoEventsError", caught |-> swallowed, columns |-> <<>>, rows |-> <<>>,
     returns |-> <<>>]

\* return pd.DataFrame(), []
EmptyResult(swallowed) ==
    [raised |-> "none", caught |-> swallowed, columns |-> <<>>, rows |-> <<>>,
     returns |-> <<>>]

TimestampsOf(rows) == [i \in 1..Len(rows) |-> rows[i].unix_timestamp]

ReturnsOf(trades) == [i \in 1..Len(trades) |-> trades[i].trade_return]

\* lines 155-201: the trades of the events that have their three prices
BuildTrades(priced, costs, w, th) ==
    With(clean_token(calculate_trading_returns(priced, costs)), LAMBDA trades :
        [raised |-> "none", caught |-> "none", columns |-> result_columns(w, th),
         rows |-> trades, returns |-> ReturnsOf(trades)])

\* lines 132-150: prices resolved for the filtered events, rows without a
\* price dropped
PriceEvents(prices_sorted, events, costs, w, th) ==
    With(get_prices_at_timestamps(prices_sorted, TimestampsOf(events), w, th),
         LAMBDA resolved :
        IF resolved.status # "ok" THEN EmptyResult(resolved.status)
        ELSE With(SelectSeq(concat(events, resolved.rows), price_mask), LAMBDA priced :
                IF Len(priced) = 0 THEN EmptyResult("none")
                ELSE BuildTrades(priced, costs, w, th)))

\* execute_backtest_strategy on one outcome of each of its two sorts.  Whatever
\* is raised inside is caught by the except clause of line 203.
execute_backtest_strategy(prices_sorted, news_sorted, asset, costs, w, th) ==
    With(filter_crypto_news(news_sorted, asset), LAMBDA filtered :
        IF filtered.status # "ok" THEN EmptyResult(filtered.status)
        ELSE IF Len(filtered.rows) = 0 THEN EmptyResult("none")
        ELSE PriceEvents(prices_sorted, filtered.rows, costs, w, th))

(***************************************************************************)
(* Performance metrics.  The sums, products and quotients of the returns   *)
(* are evaluated exactly.  A power with a fractional exponent and a square *)
(* root are kept as terms: a value with k = "real" is the real number its  *)
(* term e denotes and n is its sign (1 or -1).  The returns of the model   *)
(* keep |1 + r| within [1/2, 2] or at 0, where the power neither overflows *)
(* nor underflows a double.                                                *)
(***************************************************************************)
MetricFields ==
    {"total_return", "annualized_return", "max_drawdown", "sharpe_ratio",
     "calmar_ratio", "num_trades", "volatility", "win_rate", "avg_win", "avg_loss",
     "profit_factor"}

trading_days_per_year == 365

periods_per_year == trading_days_per_year

\* the volatility below which the Sharpe ratio is not computed is 1/10^8
VolatilityFloorInverse == 100000000

Real(sign, term) == [k |-> "real", n |-> sign, d |-> 1, e |-> term]

\* -1, 0 or 1; 0 for NaN
SignOf(x) == IF IsNaN(x) THEN 0 ELSE SignInt(x.n)

\* a / b where a or b may be a term; b is not zero
Quotient(a, b) ==
    IF a.k # "real" /\ b.k # "real" THEN Div(a, b)
    ELSE IF IsNaN(a) \/ IsNaN(b) THEN NaN
    ELSE IF b.k = "inf" THEN Int2F(0)
    ELSE IF a.k = "inf" THEN Inf(SignOf(a) * SignOf(b))
    ELSE IF SignOf(a) = 0 THEN Int2F(0)
    ELSE Real(SignOf(a) * SignOf(b), <<"div", a, b>>)

\* numpy.sqrt
Sqrt(x) ==
    IF IsNaN(x) \/ x.n < 0 THEN NaN
    ELSE IF x.k = "inf" \/ x.n = 0 THEN x
    ELSE Real(1, <<"sqrt", x>>)

\* base ** (periods_per_year / num_trades) for a numpy double: NaN for a
\* negative base unless the exponent is an integer, which is then odd
\* (365 = 5 * 73)
Power(base, num_trades) ==
    IF IsNaN(base) THEN NaN
    ELSE IF base.k = "inf"
         THEN IF base.n < 0 /\ periods_per_year % num_trades = 0 THEN Inf(-1) ELSE Inf(1)
    ELSE IF base.n = 0 \/ base = Int2F(1) \/ periods_per_year = num_trades THEN base
    ELSE IF base.n < 0 /\ periods_per_year % num_trades # 0 THEN NaN
    ELSE IF base = Int2F(-1) THEN base
    ELSE Real(SignInt(base.n), <<"pow", base, periods_per_year, num_trades>>)

\* power - 1: a positive power is above 1 exactly when its base is
MinusOne(power) ==
    IF power.k # "real" THEN Sub(power, Int2F(1))
    ELSE Real(IF power.n > 0 /\ GT(power.e[2], Int2F(1)) THEN 1 ELSE -1,
              <<"sub", power, Int2F(1)>>)

RECURSIVE prod1p(_)
\* numpy.prod(1 + returns_array)
prod1p(returns) ==
    IF Len(returns) = 0 THEN Int2F(1)
    ELSE Mul(Add(Int2F(1), Head(returns)), prod1p(Tail(returns)))

RECURSIVE sum(_)
\* numpy.sum
sum(xs) == IF Len(xs) = 0 THEN Int2F(0) ELSE Add(Head(xs), sum(Tail(xs)))

\* numpy.mean
mean(xs) == Div(sum(xs), Int2F(Len(xs)))

RECURSIVE amin(_)
\* numpy.min of a non-empty array
amin(xs) == IF Len(xs) = 1 THEN xs[1] ELSE Minimum(Head(xs), amin(Tail(xs)))

\* mutant: a flat trade counts as a win
win_mask_ZeroWins(r) == GT(r, Int2F(0)) \/ r = Int2F(0)

win_mask(r) == GT(r, Int2F(0))

loss_mask(r) == LT(r, Int2F(0))

total_return(returns) == Sub(prod1p(returns), Int2F(1))

\* (1 + total_return) ** (periods_per_year / num_trades) - 1
annualized_return(returns) ==
    MinusOne(Power(Add(Int2F(1), total_return(returns)), Len(returns)))

\* numpy.cumprod(1 + returns_array)
cumulative_returns(returns) ==
    [i \in 1..Len(returns) |-> prod1p(SubSeq(returns, 1, i))]

RECURSIVE MaxUpTo(_, _)
MaxUpTo(xs, i) == IF i = 1 THEN xs[1] ELSE Maximum(MaxUpTo(xs, i - 1), xs[i])

\* numpy.maximum.accumulate
running_max(xs) == [i \in 1..Len(xs) |-> MaxUpTo(xs, i)]

drawdowns(returns) ==
    With(cumulative_returns(returns), LAMBDA cumulative :
        With(running_max(cumulative), LAMBDA peak :
            [i \in 1..Len(returns) |-> Div(Sub(cumulative[i], peak[i]), peak[i])]))

max_drawdown(returns) == amin(drawdowns(returns))

\* the square of numpy.std(returns_array, ddof=1)
variance(returns) ==
    With(mean(returns), LAMBDA m :
        Div(sum([i \in 1..Len(returns) |->
                    Mul(Sub(returns[i], m), Sub(returns[i], m))]),
            Int2F(Len(returns) - 1)))

\* the square of return_std * sqrt(min(num_trades, periods_per_year))
volatility_squared(returns) ==
    Mul(variance(returns), Int2F(MinInt(Len(returns), periods_per_year)))

\* return_std * sqrt(m) = sqrt(variance * m); 0 for a single trade
volatility(returns) ==
    IF Len(returns) > 1 THEN Sqrt(volatility_squared(returns)) ELSE Int2F(0)

\* sq > (1e-8)^2, that is floor(d / n) < 10^16, for the square sq = n/d
ExceedsFloor(sq) ==
    IF sq.k = "fin"
    THEN /\ sq.n > 0
         /\ ((sq.d \div sq.n) \div VolatilityFloorInverse) < VolatilityFloorInverse
    ELSE sq.k = "inf" /\ sq.n > 0

\* mutant: the ratio is computed for every volatility
sharpe_ratio_Unguarded(returns) ==
    Quotient(annualized_return(returns), volatility(returns))

sharpe_ratio(returns) ==
    IF Len(returns) > 1 /\ ExceedsFloor(volatility_squared(returns))
    THEN Quotient(annualized_return(returns), volatility(returns))
    ELSE Int2F(0)

calmar_ratio(returns) ==
    With(max_drawdown(returns), LAMBDA drawdown :
        IF LT(drawdown, Int2F(0))
        THEN Quotient(annualized_return(returns), AbsF(drawdown))
        ELSE Int2F(0))

win_rate(returns) == Fin(Len(SelectSeq(returns, win_mask)), Len(returns))

avg_win(returns) ==
    With(SelectSeq(returns, win_mask), LAMBDA wins :
        IF Len(wins) > 0 THEN mean(wins) ELSE Int2F(0))

avg_loss(returns) ==
    With(SelectSeq(returns, loss_mask), LAMBDA losses :
        IF Len(losses) > 0 THEN mean(losses) ELSE Int2F(0))

\* mutant: no wins and no losses gives a factor of 0
profit_factor_ZeroWhenFlat(returns) ==
    LET total_wins == sum(SelectSeq(returns, win_mask))
        total_losses == sum(SelectSeq(returns, loss_mask))
    IN  IF total_losses # Int2F(0) THEN AbsF(Div(total_wins, total_losses))
        ELSE IF total_wins # Int2F(0) THEN Inf(1) ELSE Int2F(0)

profit_factor(returns) ==
    LET total_wins == sum(SelectSeq(returns, win_mask))
        total_losses == sum(SelectSeq(returns, loss_mask))
    IN  IF total_losses # Int2F(0) THEN AbsF(Div(total_wins, total_losses)) ELSE Inf(1)

\* a field of calculate_performance_metrics(returns), returns not empty
MetricValue(returns, name) ==
    CASE name = "total_return" -> total_return(returns)
      [] name = "annualized_return" -> annualized_return(returns)
      [] name = "max_drawdown" -> max_drawdown(returns)
      [] name = "sharpe_ratio" -> sharpe_ratio(returns)
      [] name = "calmar_ratio" -> calmar_ratio(returns)
      [] name = "num_trades" -> Int2F(Len(returns))
      [] name = "volatility" -> volatility(returns)
      [] name = "win_rate" -> win_rate(returns)
      [] name = "avg_win" -> avg_win(returns)
      [] name = "avg_loss" -> avg_loss(returns)
      [] name = "profit_factor" -> profit_factor(returns)

\* the dict returned: empty for no returns, the eleven fields otherwise
calculate_performance_metrics(returns) ==
    IF Len(returns) = 0 THEN <<>>
    ELSE [name \in MetricFields |-> MetricValue(returns, name)]

\* mutant: the report is formatted without looking at the record first
print_performance_report_NoGuard(record) ==
    IF MetricFields \subseteq DOMAIN record
    THEN [raised |-> "none", printed |-> "PERFORMANCE METRICS"]
    ELSE [raised |-> "KeyError", printed |-> ""]

\* what print_performance_report prints first, or the KeyError of a field
\* that is not there
print_performance_report(record) ==
    IF DOMAIN record = {}
    THEN [raised |-> "none", printed |-> "No performance metrics to display!"]
    ELSE IF MetricFields \subseteq DOMAIN record
    THEN [raised |-> "none", printed |-> "PERFORMANCE METRICS"]
    ELSE [raised |-> "KeyError", printed |-> ""]

\* the mark of x > high, elif x > low, else.  The magnitude of a positive term
\* is not evaluated: it can get any of the three marks.
MarksAbove(x, high, low) ==
    IF x.k = "real" THEN (IF x.n > 0 THEN {"good", "moderate", "poor"} ELSE {"poor"})
    ELSE IF GT(x, high) THEN {"good"}
    ELSE IF GT(x, low) THEN {"moderate"}
    ELSE {"poor"}

\* the mark of abs(x) < low, elif abs(x) < high, else
MarkBelow(x, low, high) ==
    IF LT(AbsF(x), low) THEN "good"
    ELSE IF LT(AbsF(x), high) THEN "moderate"
    ELSE "poor"

Count(marks, mark) == Cardinality({i \in 1..Len(marks) : marks[i] = mark})

\* lines 141-150: the overall assessment of the four criteria
Verdict(criteria) ==
    IF Count(criteria, "good") >= 3
    THEN [raised |-> "none", profitable |-> TRUE, message |-> "Strategy appears profitable"]
    ELSE IF Count(criteria, "good") + Count(criteria, "moderate") >= 3
    THEN [raised |-> "none", profitable |-> TRUE,
          message |-> "Strategy shows moderate promise"]
    ELSE [raised |-> "none", profitable |-> FALSE, message |-> "Strategy needs improvement"]

\* the outcomes of is_strategy_profitable, one unless the Sharpe ratio is a
\* positive term
is_strategy_profitable(record) ==
    IF DOMAIN record = {}
    THEN {[raised |-> "none", profitable |-> FALSE, message |-> "No metrics available"]}
    ELSE {Verdict(<<IF GT(record.total_return, Int2F(0)) THEN "good" ELSE "poor",
                    sharpe,
                    MarkBelow(record.max_drawdown, Fin(1, 10), Fin(2, 10)),
                    CHOOSE mark \in MarksAbove(record.win_rate, Fin(6, 10), Fin(4, 10)) :
                        TRUE>>) :
             sharpe \in MarksAbove(record.sharpe_ratio, Int2F(1), Fin(5, 10))}

\* metrics.get(name, default)
metrics_get(returns, name, default) ==
    dict_get(calculate_performance_metrics(returns), name, default)

(***************************************************************************)
(* Parameter optimizer.                                                    *)
(***************************************************************************)
\* itertools.product(selected_windows, selected_thresholds): the windows in the
\* outer loop
product(xs, ys) ==
    [k \in 1..(Len(xs) * Len(ys)) |->
        <<xs[((k - 1) \div Len(ys)) + 1], ys[((k - 1) % Len(ys)) + 1]>>]

\* mutant: a threshold equal to the window is accepted
valid_combinations_AllowEqual(windows, thresholds) ==
    SelectSeq(product(windows, thresholds), LAMBDA c : LE(c[1], c[2]))

\* the pairs of the product with threshold > window
valid_combinations(windows, thresholds) ==
    SelectSeq(product(windows, thresholds), LAMBDA c : GT(c[2], c[1]))

\* get_optimization_parameters, from the candidates and the objective the
\* user selected: None without a valid pair
get_optimization_parameters(windows, thresholds, metric) ==
    IF Len(valid_combinations(windows, thresholds)) = 0
    THEN [value |-> "None", combinations |-> <<>>, optimization_metric |-> metric]
    ELSE [value |-> "dict", combinations |-> valid_combinations(windows, thresholds),
          optimization_metric |-> metric]

\* one entry of the results list
OptimizationResult(combo, trades, columns, metric) ==
    With(calculate_performance_metrics(ReturnsOf(trades)), LAMBDA record :
        [window |-> combo[1], threshold |-> combo[2], trades |-> Len(trades),
         total_return |-> dict_get(record, "total_return", Int2F(0)),
         annualized_return |-> dict_get(record, "annualized_return", Int2F(0)),
         sharpe_ratio |-> dict_get(record, "sharpe_ratio", Int2F(0)),
         calmar_ratio |-> dict_get(record, "calmar_ratio", Int2F(0)),
         max_drawdown |-> dict_get(record, "max_drawdown", Int2F(0)),
         win_rate |-> dict_get(record, "win_rate", Int2F(0)),
         profit_factor |-> dict_get(record, "profit_factor", Int2F(0)),
         optimization_metric |-> metrics_get(ReturnsOf(trades), metric, Int2F(0)),
         returns |-> ReturnsOf(trades), columns |-> columns, rows |-> trades])

\* key order of the sort: descending unless the objective is max_drawdown
reverse_sort(metric) == metric # "max_drawdown"

\* How two keys compare as doubles: "lt", "eq", "gt", "none" when one is NaN
\* (every comparison is False), and "unknown" for two values of the same
\* sign of which one is a term, whose doubles the model does not compute.
Order(x, y) ==
    IF IsNaN(x) \/ IsNaN(y) THEN "none"
    ELSE IF x = y THEN "eq"
    ELSE IF x.k # "real" /\ y.k # "real" THEN (IF LT(x, y) THEN "lt" ELSE "gt")
    ELSE IF x.k = "inf" THEN (IF x.n < 0 THEN "lt" ELSE "gt")
    ELSE IF y.k = "inf" THEN (IF y.n < 0 THEN "gt" ELSE "lt")
    ELSE IF SignOf(x) < SignOf(y) THEN "lt"
    ELSE IF SignOf(x) > SignOf(y) THEN "gt"
    ELSE "unknown"

\* x is placed before y when its key is strictly better
GoesBefore(x, y, metric) ==
    Order(x.optimization_metric, y.optimization_metric) =
        (IF reverse_sort(metric) THEN "gt" ELSE "lt")

RECURSIVE InsertStable(_, _, _)
\* x inserted after every entry it does not go before
InsertStable(sorted, x, metric) ==
    IF Len(sorted) = 0 THEN <<x>>
    ELSE IF GoesBefore(x, sorted[Len(sorted)], metric)
         THEN InsertStable(SubSeq(sorted, 1, Len(sorted) - 1), x, metric)
                  \o <<sorted[Len(sorted)]>>
         ELSE sorted \o <<x>>

RECURSIVE SortFrom(_, _, _)
SortFrom(sorted, rest, metric) ==
    IF Len(rest) = 0 THEN sorted
    ELSE SortFrom(InsertStable(sorted, Head(rest), metric), Tail(rest), metric)

KeyOrder(results, i, j) ==
    Order(results[i].optimization_metric, results[j].optimization_metric)

HasOrder(results, o) ==
    \E i, j \in 1..Len(results) : i < j /\ KeyOrder(results, i, j) = o

\* an arrangement a stable sort can produce whatever the doubles of the
\* terms are: no entry before one known to be better, known ties in input
\* order
Arranged(results, metric, p) ==
    \A i, j \in 1..Len(results) :
        i < j =>
            /\ KeyOrder(results, p[i], p[j]) #
                  (IF reverse_sort(metric) THEN "lt" ELSE "gt")
            /\ KeyOrder(results, p[i], p[j]) = "eq" => p[i] < p[j]

\* results.sort(key=..., reverse=reverse_sort): a stable sort. The outcomes
\* are the arrangements the comparisons the model cannot decide leave open;
\* there is one when every comparison is decided.
sort_results(results, metric) ==
    IF ~HasOrder(results, "unknown") THEN {SortFrom(<<>>, results, metric)}
    ELSE {[i \in 1..Len(results) |-> results[p[i]]] :
             p \in {q \in Permutations1(Len(results)) :
                       HasOrder(results, "none") \/ Arranged(results, metric, q)}}

\* return None.  filter_calls is the number of calls of filter_crypto_news
\* made on the way to the return.
ReturnsNone(path, swallowed, calls) ==
    [raised |-> "none", value |-> "None", path |-> path, caught |-> swallowed,
     results |-> <<>>, filter_calls |-> calls]

\* an exception that leaves the optimizer
Propagates(path, error, calls) ==
    [raised |-> error, value |-> "none", path |-> path, caught |-> "none",
     results |-> <<>>, filter_calls |-> calls]

\* the value None in the place of a number
NoneValue == [k |-> "NoneType", n |-> 0, d |-> 1]

\* window_str = f"{window:.1f}min" and threshold_str = f"{threshold:.1f}min"
\* raise TypeError for a value that has no such format
FormatRaises(combo) == combo[1].k = "NoneType" \/ combo[2].k = "NoneType"

ReturnsList(path, results, calls) ==
    [raised |-> "none", value |-> "list", path |-> path, caught |-> "none",
     results |-> results, filter_calls |-> calls]

\* mutant: the loop drops the rows without a price from the shared frame
crypto_news_after_Shared(events, crypto_news_copy) == crypto_news_copy

\* the frame bound to crypto_news when the body of the loop has run:
\* reset_index (line 191) returned a new frame, and the rows dropped by the
\* mask (line 196) and the columns written by calculate_trading_returns
\* (line 203) are those of crypto_news_copy
crypto_news_after(events, crypto_news_copy) == events

\* mutant: a pair without a priced event gets an entry too
EvaluatePair_KeepsEmpty(prices_sorted, events, costs, combo, metric) ==
    IF FormatRaises(combo)
    THEN [raised |-> "TypeError", entries |-> <<>>, crypto_news |-> events]
    ELSE
    With(get_prices_at_timestamps(prices_sorted, TimestampsOf(events), combo[1], combo[2]),
         LAMBDA resolved :
        IF resolved.status # "ok"
        THEN [raised |-> resolved.status, entries |-> <<>>, crypto_news |-> events]
        ELSE With(SelectSeq(concat(events, resolved.rows), price_mask), LAMBDA priced :
                [raised |-> "none",
                 entries |-> <<OptimizationResult(
                     combo, clean_token(calculate_trading_returns(priced, costs)),
                     result_columns(Int2F(0), Int2F(0)), metric)>>,
                 crypto_news |-> crypto_news_after(events, priced)]))

\* the body of the loop of the vectorised sweep for one pair: the entries it
\* appends (none when no event has its three prices), or what it raises, and
\* the events as the body leaves them
EvaluatePair(prices_sorted, events, costs, combo, metric) ==
    IF FormatRaises(combo)
    THEN [raised |-> "TypeError", entries |-> <<>>, crypto_news |-> events]
    ELSE
    With(get_prices_at_timestamps(prices_sorted, TimestampsOf(events), combo[1], combo[2]),
         LAMBDA resolved :
        IF resolved.status # "ok"
        THEN [raised |-> resolved.status, entries |-> <<>>, crypto_news |-> events]
        ELSE With(SelectSeq(concat(events, resolved.rows), price_mask), LAMBDA priced :
                [raised |-> "none",
                 entries |->
                     IF Len(priced) = 0 THEN <<>>
                     ELSE <<OptimizationResult(
                              combo, clean_token(calculate_trading_returns(priced, costs)),
                              result_columns(Int2F(0), Int2F(0)), metric)>>,
                 crypto_news |-> crypto_news_after(events, priced)]))

RECURSIVE Sweep(_, _, _, _, _, _)
\* the loop of the vectorised sweep: the results so far, or the first error
Sweep(prices_sorted, events, costs, combos, metric, acc) ==
    IF Len(combos) = 0 THEN [raised |-> "none", entries |-> acc, crypto_news |-> events]
    ELSE With(EvaluatePair(prices_sorted, events, costs, Head(combos), metric),
              LAMBDA one :
             IF one.raised # "none" THEN one
             ELSE Sweep(prices_sorted, one.crypto_news, costs, Tail(combos), metric,
                        acc \o one.entries))

\* lines 181-251: the sweep over the filtered events and the ranking
SweepAndRank(prices_sorted, events, costs, combos, metric) ==
    With(Sweep(prices_sorted, events, costs, combos, metric, <<>>), LAMBDA swept :
        IF swept.raised # "none" THEN {ReturnsNone("efficient", swept.raised, 1)}
        ELSE IF Len(swept.entries) = 0 THEN {ReturnsNone("efficient", "none", 1)}
        ELSE {ReturnsList("efficient", ranked, 1) :
                 ranked \in sort_results(swept.entries, metric)})

run_parameter_optimization_efficient(prices, news, asset, costs, combos, metric) ==
    With(filter_crypto_news(news, asset), LAMBDA filtered :
        IF filtered.status # "ok" THEN {ReturnsNone("efficient", filtered.status, 1)}
        ELSE IF Len(filtered.rows) = 0 THEN {ReturnsNone("efficient", "none", 1)}
        ELSE SweepAndRank(prices, filtered.rows, costs, combos, metric))

\* mutant: the fallback backtests without the trading costs
FallbackPair_NoCosts(prices_sorted, news_sorted, asset, costs, combo, metric) ==
    With(execute_backtest_strategy(prices_sorted, news_sorted, asset, NoCosts,
                                   combo[1], combo[2]), LAMBDA run :
        IF Len(run.returns) > 0
        THEN <<OptimizationResult(combo, run.rows, run.columns, metric)>>
        ELSE <<>>)

\* lines 288-315: one pair of the fallback, a full backtest
FallbackPair(prices_sorted, news_sorted, asset, costs, combo, metric) ==
    With(execute_backtest_strategy(prices_sorted, news_sorted, asset, costs,
                                   combo[1], combo[2]), LAMBDA run :
        IF Len(run.returns) > 0
        THEN <<OptimizationResult(combo, run.rows, run.columns, metric)>>
        ELSE <<>>)

RECURSIVE FallbackSweep(_, _, _, _, _, _)
\* the loop of the fallback: the entries of the pairs, or the error that left
\* the loop, and the number of backtests made.  The two strings are formatted
\* (lines 285-286) before the try of line 288, so what they raise leaves the
\* loop.
FallbackSweep(prices_sorted, news_sorted, asset, costs, combos, metric) ==
    IF Len(combos) = 0 THEN [raised |-> "none", entries |-> <<>>, calls |-> 0]
    ELSE IF FormatRaises(Head(combos))
    THEN [raised |-> "TypeError", entries |-> <<>>, calls |-> 0]
    ELSE With(FallbackSweep(prices_sorted, news_sorted, asset, costs,
                            Tail(combos), metric), LAMBDA rest :
             [raised |-> rest.raised,
              entries |->
                  IF rest.raised # "none" THEN <<>>
                  ELSE FallbackPair(prices_sorted, news_sorted, asset, costs,
                                    Head(combos), metric) \o rest.entries,
              calls |-> rest.calls + 1])

run_parameter_optimization_fallback(prices, news, asset, costs, combos, metric) ==
    With(FallbackSweep(prices, news, asset, costs, combos, metric),
         LAMBDA swept :
        IF swept.raised # "none" THEN {Propagates("fallback", swept.raised, swept.calls)}
        ELSE IF Len(swept.entries) = 0 THEN {ReturnsNone("fallback", "none", swept.calls)}
        ELSE {ReturnsList("fallback", ranked, swept.calls) :
                 ranked \in sort_results(swept.entries, metric)})

\* run_parameter_optimization: the vectorised sweep, then the fallback when
\* that returned None.  The filter was called once by the sweep (line 168) and
\* is called again by the backtest of each pair of the fallback
\* (backtest.py line 122).
run_parameter_optimization(prices_sorted, news_sorted, asset, costs, combos, metric) ==
    UNION {IF results.value = "None"
           THEN {[o EXCEPT !.filter_calls = results.filter_calls + @] :
                    o \in run_parameter_optimization_fallback(
                              prices_sorted, news_sorted, asset, costs, combos, metric)}
           ELSE {results} :
           results \in run_parameter_optimization_efficient(
                           prices_sorted, news_sorted, asset, costs, combos, metric)}

(***************************************************************************)
(* Inputs.                                                                 *)
(***************************************************************************)
SeqsUpTo(S, n) == UNION {[1..m -> S] : m \in 0..n}

PriceTimes == {100, 200, 400}

QueryTimes ==
    {Int2F(-21), Int2F(-20), Int2F(150), Int2F(350), Int2F(520), Int2F(521),
     Int2F(1000), Inf(1)}

\* (window, threshold) pairs in minutes, threshold > window
Combos == {<<Int2F(DefaultWindow), Int2F(DefaultThreshold)>>, <<Fin(1, 2), Int2F(5)>>}

IsSortedTs(s) == \A i \in 1..(Len(s) - 1) : s[i] <= s[i + 1]

\* a sorted price series whose rows are told apart by their close
SortedSeries ==
    {[i \in 1..Len(s) |-> [unix_timestamp |-> s[i], close |-> Int2F(i)]] :
        s \in {x \in SeqsUpTo(PriceTimes, MaxPrices) : IsSortedTs(x)}}

NotRun == [status |-> "none", columns |-> FALSE, rows |-> <<>>]

\* the variables an entry point that has not run leaves at their initial value
Idle ==
    /\ price_results = NotRun
    /\ crypto_news = NotRun
    /\ price_df_sorted = <<>>
    /\ backtest = NotRun
    /\ optimization = NotRun
    /\ metrics = NotRun
    /\ report = NotRun
    /\ assessment = NotRun
    /\ metric_value = NotRun

(***************************************************************************)
(* The resolver called on its own.                                         *)
(***************************************************************************)
InitResolver ==
    /\ pc = "start"
    /\ price_df \in SortedSeries
    /\ timestamps \in SeqsUpTo(QueryTimes, MaxQueries)
    /\ \E c \in Combos : window = c[1] /\ threshold = c[2]
    /\ news_df = <<>>
    /\ selected_crypto = "BTC"
    /\ trading_costs = NoCosts
    /\ combinations = <<>>
    /\ optimization_metric = "total_return"
    /\ trade_returns = <<>>
    /\ selected_windows = <<>>
    /\ selected_thresholds = <<>>
    /\ Idle

GetPricesAtTimestamps ==
    /\ pc = "start"
    /\ price_results' = get_prices_at_timestamps(price_df, timestamps, window, threshold)
    /\ pc' = "done"
    /\ UNCHANGED <<inputs, crypto_news, price_df_sorted, backtest, optimization, reporting>>

NextResolver == GetPricesAtTimestamps

SpecResolver == InitResolver /\ [][NextResolver]_vars

(***************************************************************************)
(* Properties of the resolver.                                             *)
(***************************************************************************)
\* the three lookups of query i: <<query timestamp, resolved price>>
Lookups(i) ==
    LET r == price_results.rows[i]
    IN  {<<timestamps[i], r.price_current>>,
         <<Offset(timestamps, window)[i], r.price_window>>,
         <<Offset(timestamps, threshold)[i], r.price_threshold>>}

Distance(q, j) == AbsF(Sub(q, Int2F(price_df[j].unix_timestamp)))

\* the reference points at minimal distance from q; of two distances that tie,
\* the one with the earlier timestamp
Nearest(q) ==
    {j \in 1..Len(price_df) :
        \A m \in 1..Len(price_df) :
            \/ LT(Distance(q, j), Distance(q, m))
            \/ /\ Distance(q, j) = Distance(q, m)
               /\ price_df[j].unix_timestamp <= price_df[m].unix_timestamp}

WithinTolerance(q) ==
    \E j \in 1..Len(price_df) : LE(Distance(q, j), Int2F(DefaultTolerance))

ResolverRan == pc = "done" /\ price_results.status = "ok" /\ price_results.columns

\* C1: on a non-empty sorted series every lookup returns the price of the
\* reference point nearest in time to the query, the earlier one on a tie,
\* when that distance is at most the tolerance of 120 s, and absent (NaN)
\* when the nearest point is further away than the tolerance.
C1_NearestWithinTolerance ==
    (pc = "done" /\ Len(price_df) > 0 /\ Len(timestamps) > 0) =>
        /\ ResolverRan
        /\ Len(price_results.rows) = Len(timestamps)
        /\ \A i \in 1..Len(timestamps) : \A l \in Lookups(i) :
              IF WithinTolerance(l[1])
              THEN \E j \in Nearest(l[1]) : l[2] = price_df[j].close
              ELSE IsNaN(l[2])

\* a tie resolved to the earlier point, a distance of exactly 120 s resolved,
\* and a query further than 120 s from every point answered absent, in one call
C1_Witness ==
    /\ ResolverRan
    /\ \E i \in 1..Len(timestamps) : \E l \in Lookups(i) :
          \E j, m \in 1..Len(price_df) :
              /\ price_df[j].unix_timestamp < price_df[m].unix_timestamp
              /\ Distance(l[1], j) = Distance(l[1], m)
              /\ j \in Nearest(l[1])
              /\ l[2] = price_df[j].close
    /\ \E i \in 1..Len(timestamps) : \E l \in Lookups(i) :
          /\ \E j \in Nearest(l[1]) :
                Distance(l[1], j) = Int2F(DefaultTolerance) /\ l[2] = price_df[j].close
    /\ \E i \in 1..Len(timestamps) : \E l \in Lookups(i) :
          /\ ~WithinTolerance(l[1])
          /\ IsNaN(l[2])

\* C2: with an empty reference series the resolver answers absent for every
\* query timestamp in each of the three lookups and raises no error.
C2_EmptySeriesAllAbsent ==
    (pc = "done" /\ Len(price_df) = 0) =>
        /\ price_results.status = "ok"
        /\ Len(price_results.rows) = Len(timestamps)
        /\ \A i \in 1..Len(price_results.rows) : \A l \in Lookups(i) : IsNaN(l[2])

(***************************************************************************)
(* The event filter called on its own.                                     *)
(***************************************************************************)
Tokens ==
    {Text(<<"b", "t", "c">>), Text(<<"B", "i", "t", "c", "o", "i", "n">>),
     Text(<<"E", "T", "H", "B", "T", "C">>), [missing |-> TRUE, text |-> <<>>]}

NewsTimes == {Int2F(100), Int2F(150), NaN}

Assets == {"BTC", "ETH", "XRP"}

NewsTables(times, tokens, n) ==
    {[i \in 1..Len(s) |-> [row |-> i - 1, unix_timestamp |-> s[i][1], token |-> s[i][2]]] :
        s \in SeqsUpTo(times \X tokens, n)}

InitFilter ==
    /\ pc = "start"
    /\ news_df \in NewsTables(NewsTimes, Tokens, MaxNews)
    /\ selected_crypto \in Assets
    /\ price_df = <<>>
    /\ timestamps = <<>>
    /\ window = Int2F(DefaultWindow)
    /\ threshold = Int2F(DefaultThreshold)
    /\ trading_costs = NoCosts
    /\ combinations = <<>>
    /\ optimization_metric = "total_return"
    /\ trade_returns = <<>>
    /\ selected_windows = <<>>
    /\ selected_thresholds = <<>>
    /\ Idle

FilterCryptoNews ==
    /\ pc = "start"
    /\ \E news_df_sorted \in sort_values(news_df) :
          crypto_news' = filter_crypto_news(news_df_sorted, selected_crypto)
    /\ pc' = "done"
    /\ UNCHANGED <<inputs, price_results, price_df_sorted, backtest, optimization, reporting>>

NextFilter == FilterCryptoNews

SpecFilter == InitFilter /\ [][NextFilter]_vars

(***************************************************************************)
(* Properties of the event filter.                                         *)
(***************************************************************************)
\* pat occurs in str as a run of consecutive characters
IsSubstring(pat, str) ==
    \E p \in 0..(Len(str) - Len(pat)) : SubSeq(str, p + 1, p + Len(pat)) = pat

\* the text of a token written in capitals, character by character
Capitals(token) ==
    LET str == IF token.missing THEN <<"n", "a", "n">> ELSE token.text
    IN  [i \in 1..Len(str) |->
            IF \E m \in 1..Len(LowerCase) : LowerCase[m] = str[i]
            THEN UpperCase[CHOOSE m \in 1..Len(LowerCase) : LowerCase[m] = str[i]]
            ELSE str[i]]

PatternSet(asset) ==
    IF asset = "BTC"
    THEN {<<"B", "T", "C">>, <<"B", "I", "T", "C", "O", "I", "N">>}
    ELSE {<<"E", "T", "H">>, <<"E", "T", "H", "E", "R", "E", "U", "M">>}

Matches(r, asset) == \E pat \in PatternSet(asset) : IsSubstring(pat, Capitals(r.token))

RowsOf(df) == {df[i] : i \in 1..Len(df)}

FilterRan == pc = "done" /\ crypto_news.status = "ok"

\* C3: an event is kept if and only if its token, in capitals, contains a
\* pattern of the selected asset as a substring and its timestamp is present.
C3_KeptIffMatchAndTimestamp ==
    FilterRan =>
        /\ RowsOf(crypto_news.rows) =
              {r \in RowsOf(news_df) :
                  Matches(r, selected_crypto) /\ r.unix_timestamp # NaN}
        /\ \A i, j \in 1..Len(crypto_news.rows) :
              crypto_news.rows[i] = crypto_news.rows[j] => i = j

\* "ETHBTC" kept for BTC, a lower-case "btc" kept, and a matching token with an
\* absent timestamp left out, in one call
C3_Witness ==
    /\ FilterRan
    /\ selected_crypto = "BTC"
    /\ \E r \in RowsOf(crypto_news.rows) :
          r.token = Text(<<"E", "T", "H", "B", "T", "C">>)
    /\ \E r \in RowsOf(crypto_news.rows) : r.token = Text(<<"b", "t", "c">>)
    /\ \E r \in RowsOf(news_df) :
          /\ Matches(r, "BTC")
          /\ IsNaN(r.unix_timestamp)
          /\ r \notin RowsOf(crypto_news.rows)

\* the returned events are in ascending order of timestamp
C4_SortedAscending ==
    FilterRan =>
        \A i \in 1..(Len(crypto_news.rows) - 1) :
            LE(crypto_news.rows[i].unix_timestamp, crypto_news.rows[i + 1].unix_timestamp)

\* C4: the returned events are sorted by timestamp ascending and the sort is
\* stable: events with equal timestamps keep the order of the input table.
C4_SortedStable ==
    FilterRan =>
        /\ C4_SortedAscending
        /\ \A i, j \in 1..Len(crypto_news.rows) :
              (i < j /\ crypto_news.rows[i].unix_timestamp = crypto_news.rows[j].unix_timestamp)
                  => crypto_news.rows[i].row < crypto_news.rows[j].row

(***************************************************************************)
(* The backtest of one (window, threshold) pair.                           *)
(***************************************************************************)
\* price observations around an event at 100 s: at the event, one minute
\* later and ten minutes later; an event at -20 s is 120 s from the first
ObservationTimes == {100, 160, 700}

Closes == {Int2F(0), Int2F(1), Int2F(2)}

\* price tables in any row order, one observation per timestamp
PriceTables ==
    {[i \in 1..Len(s) |-> [unix_timestamp |-> s[i][1], close |-> s[i][2]]] :
        s \in {x \in SeqsUpTo(ObservationTimes \X Closes, MaxPrices) :
                  \A i, j \in 1..Len(x) : x[i][1] = x[j][1] => i = j}}

EventTimes == {Int2F(-20), Int2F(100), NaN}

EventTokens == {Text(<<"b", "t", "c">>)}

CostOptions ==
    {NoCosts,
     [given |-> TRUE, dict |-> [x \in {"transaction_cost"} |-> Fin(1, 1000)]],
     [given |-> TRUE,
      dict |-> [x \in {"transaction_cost", "slippage"} |->
                   IF x = "slippage" THEN Fin(1, 2000) ELSE Fin(1, 1000)]]}

BacktestCombo(w, th) == <<Int2F(w), Int2F(th)>>

BacktestCombos ==
    {BacktestCombo(DefaultWindow, DefaultThreshold), BacktestCombo(2, DefaultThreshold)}

InitBacktest ==
    /\ pc = "start"
    /\ price_df \in PriceTables
    /\ news_df \in NewsTables(EventTimes, EventTokens, MaxEvents)
    /\ selected_crypto = "BTC"
    /\ trading_costs \in CostOptions
    /\ \E c \in BacktestCombos : window = c[1] /\ threshold = c[2]
    /\ timestamps = <<>>
    /\ combinations = <<>>
    /\ optimization_metric = "total_return"
    /\ trade_returns = <<>>
    /\ selected_windows = <<>>
    /\ selected_thresholds = <<>>
    /\ Idle

\* the sorted price series is built only when some event passed the filter
SortedIfReached(filtered, ps) ==
    IF filtered.status = "ok" /\ Len(filtered.rows) > 0 THEN ps ELSE <<>>

ExecuteBacktest ==
    /\ pc = "start"
    /\ \E ns \in sort_values(news_df) :
       \E ps \in sort_values(price_df) :
          /\ crypto_news' = filter_crypto_news(ns, selected_crypto)
          /\ price_df_sorted' = SortedIfReached(crypto_news', ps)
          /\ backtest' = execute_backtest_strategy(ps, ns, selected_crypto,
                                                   trading_costs, window, threshold)
    /\ pc' = "done"
    /\ UNCHANGED <<inputs, price_results, optimization, reporting>>

NextBacktest == ExecuteBacktest

SpecBacktest == InitBacktest /\ [][NextBacktest]_vars

(***************************************************************************)
(* Properties of the trade builder.                                        *)
(***************************************************************************)
BacktestRan == pc = "done" /\ backtest # NotRun

\* the filter passed some events on to the trade builder
EventsFiltered == BacktestRan /\ crypto_news.status = "ok"

RowIds(rows) == [i \in 1..Len(rows) |-> rows[i].row]

Seconds(minutes) == Mul(minutes, Int2F(SecondsPerMinute))

\* all three query timestamps of the event have an observation within tolerance
AllResolved(e) ==
    /\ WithinTolerance(e.unix_timestamp)
    /\ WithinTolerance(Add(e.unix_timestamp, Seconds(window)))
    /\ WithinTolerance(Add(e.unix_timestamp, Seconds(threshold)))

\* C7: the trade table has exactly one row for each filtered event whose three
\* resolved prices are all present, in the order of the filtered events, and
\* no other row; every trade has its three prices and there are never more
\* trades than filtered events.
C7_TradeIffAllPricesPresent ==
    EventsFiltered =>
        /\ RowIds(backtest.rows) = RowIds(SelectSeq(crypto_news.rows, AllResolved))
        /\ \A i \in 1..Len(backtest.rows) :
              /\ backtest.rows[i].price_current # NaN
              /\ backtest.rows[i].price_window # NaN
              /\ backtest.rows[i].price_threshold # NaN
        /\ Len(backtest.rows) <= Len(crypto_news.rows)
        /\ Len(backtest.returns) = Len(backtest.rows)

\* two filtered events, the first dropped for a missing price, the second traded
C7_Witness ==
    /\ EventsFiltered
    /\ Len(crypto_news.rows) = 2
    /\ ~AllResolved(crypto_news.rows[1])
    /\ RowIds(backtest.rows) = <<crypto_news.rows[2].row>>

StrictlyPositive(x) == (x.k = "inf" /\ x.n = 1) \/ (x.k = "fin" /\ x.n > 0)

WindowChange(t) == Div(Sub(t.price_window, t.price_current), t.price_current)

ThresholdChange(t) == Div(Sub(t.price_threshold, t.price_current), t.price_current)

\* C8: position is +1 when (price_window - price_current)/price_current is
\* strictly greater than 0 and -1 otherwise, a change of exactly zero included;
\* it is never another value.
C8_PositionFromWindowChange ==
    BacktestRan =>
        \A i \in 1..Len(backtest.rows) :
            LET t == backtest.rows[i]
            IN  /\ t.price_change_window = WindowChange(t)
                /\ t.position \in {1, -1}
                /\ (t.position = 1) <=> StrictlyPositive(WindowChange(t))

\* one run with a trade of window change zero and position -1 and a trade of
\* positive window change and position +1
C8_Witness ==
    /\ BacktestRan
    /\ \E i \in 1..Len(backtest.rows) :
          WindowChange(backtest.rows[i]) = Int2F(0) /\ backtest.rows[i].position = -1
    /\ \E i \in 1..Len(backtest.rows) :
          StrictlyPositive(WindowChange(backtest.rows[i])) /\ backtest.rows[i].position = 1

ConfiguredCost(name) ==
    IF name \in DOMAIN trading_costs.dict THEN trading_costs.dict[name] ELSE Int2F(0)

\* 2 * (transaction_cost + slippage)
RoundTripCost ==
    Mul(Int2F(2), Add(ConfiguredCost("transaction_cost"), ConfiguredCost("slippage")))

Gross(t) == Mul(Int2F(t.position), ThresholdChange(t))

\* the same run without a costs configuration
CostFree ==
    execute_backtest_strategy(price_df_sorted, crypto_news.rows, selected_crypto,
                              NoCosts, window, threshold)

\* C9: trade_return is position * price_change_threshold, less
\* 2*(transaction_cost + slippage)*|position| when costs are supplied (a
\* missing field counting 0); against the same run without costs every
\* trade_return is lower by exactly that amount, and the trades and their
\* positions are the same.
C9_ReturnNetOfCosts ==
    (EventsFiltered /\ Len(crypto_news.rows) > 0) =>
        \A free \in {CostFree} :
            /\ \A i \in 1..Len(backtest.rows) :
                  LET t == backtest.rows[i]
                  IN  t.trade_return =
                          IF trading_costs.given
                          THEN Sub(Gross(t), Mul(RoundTripCost, Int2F(AbsInt(t.position))))
                          ELSE Gross(t)
            /\ RowIds(backtest.rows) = RowIds(free.rows)
            /\ \A i \in 1..Len(backtest.rows) :
                  /\ backtest.rows[i].position = free.rows[i].position
                  /\ backtest.returns[i] =
                        IF trading_costs.given
                        THEN Sub(free.returns[i], RoundTripCost)
                        ELSE free.returns[i]

\* costs of 0.001 with no slippage field: a short trade's return is 0.002
\* below the return of the same trade without costs
C9_Witness ==
    /\ EventsFiltered
    /\ trading_costs.given
    /\ DOMAIN trading_costs.dict = {"transaction_cost"}
    /\ \E free \in {CostFree} : \E i \in 1..Len(backtest.rows) :
          /\ backtest.rows[i].position = -1
          /\ IsFinite(backtest.returns[i])
          /\ Sub(free.returns[i], backtest.returns[i]) = Fin(2, 1000)

\* C10: an event whose resolved price_current is zero produces no trade, so
\* no infinite or NaN trade_return reaches the returns list.
C10_ZeroPriceNoTrade ==
    BacktestRan =>
        /\ \A i \in 1..Len(backtest.rows) : backtest.rows[i].price_current # Int2F(0)
        /\ \A i \in 1..Len(backtest.returns) : IsFinite(backtest.returns[i])

(***************************************************************************)
(* The parameter sweep.                                                    *)
(***************************************************************************)
\* price tables with positive closes
PositivePriceTables ==
    {t \in PriceTables : \A i \in 1..Len(t) : t[i].close # Int2F(0)}

\* lists of distinct pairs
ComboLists ==
    {c \in SeqsUpTo(BacktestCombos, MaxCombos) :
        \A i, j \in 1..Len(c) : c[i] = c[j] => i = j}

\* no costs, or an eighth of the price per trade for each of cost and slippage
SweepCostOptions ==
    {NoCosts,
     [given |-> TRUE, dict |-> [x \in {"transaction_cost", "slippage"} |-> Fin(1, 8)]]}

\* three of the objectives offered, and a misspelt one
Objectives == {"total_return", "win_rate", "profit_factor", "sharpe"}

InitOptimizer ==
    /\ pc = "start"
    /\ price_df \in {t \in PositivePriceTables : IsSortedTs([i \in 1..Len(t) |-> t[i].unix_timestamp])}
    /\ news_df \in NewsTables({Int2F(-20), Int2F(100)}, EventTokens, MaxEvents)
    /\ selected_crypto \in {"BTC", "XRP"}
    /\ trading_costs \in SweepCostOptions
    /\ combinations \in ComboLists
    /\ optimization_metric \in Objectives
    /\ window = Int2F(DefaultWindow)
    /\ threshold = Int2F(DefaultThreshold)
    /\ timestamps = <<>>
    /\ trade_returns = <<>>
    /\ selected_windows = <<>>
    /\ selected_thresholds = <<>>
    /\ Idle

\* Both sorts are functions of their input on a given build: every call made
\* during one run gets the same outcome.
RunParameterOptimization ==
    /\ pc = "start"
    /\ \E ns \in sort_values(news_df) :
       \E ps \in sort_values(price_df) :
          /\ crypto_news' = filter_crypto_news(ns, selected_crypto)
          /\ price_df_sorted' = SortedIfReached(crypto_news', ps)
          /\ optimization' \in
                run_parameter_optimization(ps, ns, selected_crypto, trading_costs,
                                           combinations, optimization_metric)
    /\ pc' = "done"
    /\ UNCHANGED <<inputs, price_results, backtest, reporting>>

NextOptimizer == RunParameterOptimization

SpecOptimizer == InitOptimizer /\ [][NextOptimizer]_vars

(***************************************************************************)
(* Properties of the parameter sweep.                                      *)
(***************************************************************************)
OptimizerRan == pc = "done" /\ optimization # NotRun

\* C6: with an objective name that is no field of the metrics record the
\* optimizer raises an error and ranks nothing.
C6_UnknownMetricIsHardError ==
    (OptimizerRan /\ optimization_metric \notin MetricFields) =>
        /\ optimization.raised # "none"
        /\ optimization.results = <<>>

(***************************************************************************)
(* The three entry points that take the asset, each called on its own.     *)
(***************************************************************************)
InitEntryPoints ==
    /\ pc = "start"
    /\ price_df \in PositivePriceTables
    /\ news_df \in NewsTables(EventTimes, EventTokens, MaxEvents)
    /\ selected_crypto \in Assets
    /\ trading_costs = NoCosts
    /\ window = Int2F(DefaultWindow)
    /\ threshold = Int2F(DefaultThreshold)
    /\ combinations = <<BacktestCombo(DefaultWindow, DefaultThreshold)>>
    /\ optimization_metric = "total_return"
    /\ timestamps = <<>>
    /\ trade_returns = <<>>
    /\ selected_windows = <<>>
    /\ selected_thresholds = <<>>
    /\ Idle

NextEntryPoints == FilterCryptoNews \/ ExecuteBacktest \/ RunParameterOptimization

SpecEntryPoints == InitEntryPoints /\ [][NextEntryPoints]_vars

\* what the caller of execute_backtest_strategy gets to see
Visible(b) == [raised |-> b.raised, columns |-> b.columns, rows |-> b.rows,
               returns |-> b.returns]

\* the soft outcome of a backtest: no events, or no trades
SoftEmpty == [raised |-> "none", columns |-> <<>>, rows |-> <<>>, returns |-> <<>>]

\* C5: a request for an asset outside {BTC, ETH} ends, at each entry point, in
\* an error outcome that the caller can tell from the soft empty outcome (no
\* events, no trades, no valid combinations).
C5_UnsupportedAssetIsHardError ==
    (pc = "done" /\ selected_crypto \notin {"BTC", "ETH"}) =>
        /\ crypto_news.status = "ValueError"
        /\ BacktestRan => (backtest.raised # "none" /\ Visible(backtest) # SoftEmpty)
        /\ OptimizerRan => (optimization.raised # "none" /\ optimization.value # "None")

\* the part of C5 that the filter itself keeps: it raises for such an asset
C5_FilterRaises ==
    (pc = "done" /\ selected_crypto \notin {"BTC", "ETH"}) =>
        crypto_news.status = "ValueError"

\* no event that passed the filter has its three prices
NoneResolved == \A i \in 1..Len(crypto_news.rows) : ~AllResolved(crypto_news.rows[i])

\* C12: for a supported asset, when no event passes the filter or no filtered
\* event has its three prices, execute_backtest_strategy returns the empty
\* trade table and the empty returns list, and raises no error.
C12_SoftEmptyIsSentinel ==
    (BacktestRan /\ selected_crypto \in {"BTC", "ETH"} /\ NoneResolved) =>
        /\ backtest.raised = "none"
        /\ backtest.rows = <<>>
        /\ backtest.columns = <<>>
        /\ backtest.returns = <<>>

\* events passed the filter and the price table has observations, none of them
\* close enough to price an event: the empty outcome
C12_Witness ==
    /\ BacktestRan
    /\ selected_crypto = "BTC"
    /\ Len(crypto_news.rows) > 0
    /\ Len(price_df) > 0
    /\ NoneResolved
    /\ Visible(backtest) = SoftEmpty

(***************************************************************************)
(* The backtest on malformed numeric input: observations whose close is    *)
(* NaN or infinite, events whose timestamp is NaN or infinite.             *)
(***************************************************************************)
MalformedCloses == {Int2F(1), Int2F(2), NaN, Inf(1)}

MalformedPriceTables ==
    {[i \in 1..Len(s) |-> [unix_timestamp |-> s[i][1], close |-> s[i][2]]] :
        s \in {x \in SeqsUpTo(ObservationTimes \X MalformedCloses, MaxPrices) :
                  \A i, j \in 1..Len(x) : x[i][1] = x[j][1] => i = j}}

MalformedEventTimes == {Int2F(100), NaN, Inf(1), Inf(-1)}

InitMalformed ==
    /\ pc = "start"
    /\ price_df \in MalformedPriceTables
    /\ news_df \in NewsTables(MalformedEventTimes, EventTokens, MaxEvents)
    /\ selected_crypto = "BTC"
    /\ trading_costs = NoCosts
    /\ window = Int2F(DefaultWindow)
    /\ threshold = Int2F(DefaultThreshold)
    /\ timestamps = <<>>
    /\ combinations = <<>>
    /\ optimization_metric = "total_return"
    /\ trade_returns = <<>>
    /\ selected_windows = <<>>
    /\ selected_thresholds = <<>>
    /\ Idle

NextMalformed == ExecuteBacktest

SpecMalformed == InitMalformed /\ [][NextMalformed]_vars

\* the prices a trade was built from
TradePrices(t) == {t.price_current, t.price_window, t.price_threshold}

\* a NaN close never supplies a price of a trade
C11_NaNPriceIsAbsent ==
    BacktestRan =>
        \A i \in 1..Len(backtest.rows) : \A p \in TradePrices(backtest.rows[i]) : ~IsNaN(p)

\* an event whose timestamp is NaN or infinite produces no trade
C11_NonFiniteTimestampNoTrade ==
    BacktestRan =>
        \A i \in 1..Len(news_df) :
            ~IsFinite(news_df[i].unix_timestamp) =>
                \A j \in 1..Len(backtest.rows) : backtest.rows[j].row # news_df[i].row

\* C11: malformed numeric input is treated as absent and raises nothing: a
\* close that is NaN or infinite never supplies price_current, price_window or
\* price_threshold of a trade, and an event whose timestamp is NaN or infinite
\* produces no trade.
C11_NonFiniteInputIsAbsent ==
    BacktestRan =>
        /\ backtest.raised = "none"
        /\ \A i \in 1..Len(backtest.rows) :
              \A p \in TradePrices(backtest.rows[i]) : IsFinite(p)
        /\ C11_NonFiniteTimestampNoTrade

(***************************************************************************)
(* The metrics engine and the consumers of its record.                     *)
(***************************************************************************)
MaxReturns == 3

ReturnValues == {Fin(-3, 2), Int2F(-1), Fin(-1, 2), Int2F(0), Fin(1, 2), Int2F(1)}

\* the returns 0.01, -0.02, 0.015
ExampleReturns == <<Fin(1, 100), Fin(-2, 100), Fin(15, 1000)>>

ReturnSeries == SeqsUpTo(ReturnValues, MaxReturns) \cup {ExampleReturns}

\* the objectives get_optimization_parameters offers
MetricObjectives ==
    {"total_return", "sharpe_ratio", "calmar_ratio", "win_rate", "profit_factor"}

InitMetrics ==
    /\ pc = "start"
    /\ trade_returns \in ReturnSeries
    /\ selected_windows = <<>>
    /\ selected_thresholds = <<>>
    /\ optimization_metric \in MetricObjectives
    /\ price_df = <<>>
    /\ news_df = <<>>
    /\ selected_crypto = "BTC"
    /\ trading_costs = NoCosts
    /\ window = Int2F(DefaultWindow)
    /\ threshold = Int2F(DefaultThreshold)
    /\ timestamps = <<>>
    /\ combinations = <<>>
    /\ Idle

CalculatePerformanceMetrics ==
    /\ pc = "start"
    /\ metrics' = [raised |-> "none",
                   record |-> calculate_performance_metrics(trade_returns)]
    /\ pc' = "metrics"
    /\ UNCHANGED <<inputs, price_results, crypto_news, price_df_sorted, backtest,
                   optimization, report, assessment, metric_value>>

PrintPerformanceReport ==
    /\ pc = "metrics"
    /\ report = NotRun
    /\ report' = print_performance_report(metrics.record)
    /\ UNCHANGED <<pc, inputs, price_results, crypto_news, price_df_sorted, backtest,
                   optimization, metrics, assessment, metric_value>>

IsStrategyProfitable ==
    /\ pc = "metrics"
    /\ assessment = NotRun
    /\ assessment' \in is_strategy_profitable(metrics.record)
    /\ UNCHANGED <<pc, inputs, price_results, crypto_news, price_df_sorted, backtest,
                   optimization, metrics, report, metric_value>>

\* metric_value = metrics.get(optimization_metric, 0)
MetricsGet ==
    /\ pc = "metrics"
    /\ metric_value = NotRun
    /\ metric_value' =
          [raised |-> "none",
           value |-> dict_get(metrics.record, optimization_metric, Int2F(0))]
    /\ UNCHANGED <<pc, inputs, price_results, crypto_news, price_df_sorted, backtest,
                   optimization, metrics, report, assessment>>

NextMetrics ==
    \/ CalculatePerformanceMetrics
    \/ PrintPerformanceReport
    \/ IsStrategyProfitable
    \/ MetricsGet

SpecMetrics == InitMetrics /\ [][NextMetrics]_vars

(***************************************************************************)
(* Properties of the metrics.                                              *)
(***************************************************************************)
MetricsRan == pc = "metrics" /\ metrics # NotRun

NumTrades == Len(trade_returns)

\* C13: for an empty returns list the engine returns the empty record and
\* raises nothing, and the report, the assessment and the optimizer's read of
\* the objective take the empty record without an error.
C13_EmptyReturnsEmptyRecord ==
    (MetricsRan /\ NumTrades = 0) =>
        /\ metrics.raised = "none"
        /\ DOMAIN metrics.record = {}
        /\ report # NotRun => report.raised = "none"
        /\ assessment # NotRun => (assessment.raised = "none" /\ ~assessment.profitable)
        /\ metric_value # NotRun =>
              (metric_value.raised = "none" /\ metric_value.value = Int2F(0))

\* the empty record went through the report, the assessment and the read
C13_Witness ==
    /\ MetricsRan
    /\ NumTrades = 0
    /\ DOMAIN metrics.record = {}
    /\ report # NotRun
    /\ assessment # NotRun
    /\ metric_value # NotRun

RECURSIVE Growth(_)
\* the product of (1 + r_j) over the first i trades
Growth(i) ==
    IF i = 0 THEN Int2F(1) ELSE Mul(Growth(i - 1), Add(Int2F(1), trade_returns[i]))

Winners == {i \in 1..NumTrades : StrictlyPositive(trade_returns[i])}

\* total_return is the product of (1 + r_i) less 1, win_rate the fraction of
\* strictly positive returns
TotalReturnAndWinRate ==
    (MetricsRan /\ NumTrades > 0) =>
        /\ metrics.record.total_return = Sub(Growth(NumTrades), Int2F(1))
        /\ metrics.record.win_rate = Fin(Cardinality(Winners), NumTrades)

\* C14: total_return is the product of (1 + r_i) over all trades less 1 and
\* win_rate is the fraction of returns strictly greater than 0, a zero return
\* being neither a win nor a loss; the returns 0.01, -0.02, 0.015 give a
\* total_return of 0.004647 and a win_rate of 2/3.
C14_TotalReturnAndWinRate ==
    /\ TotalReturnAndWinRate
    /\ (MetricsRan /\ trade_returns = ExampleReturns) =>
          /\ metrics.record.total_return = Fin(4647, 1000000)
          /\ metrics.record.win_rate = Fin(2, 3)

\* the metrics of the returns 0.01, -0.02, 0.015
C14_Witness ==
    /\ MetricsRan
    /\ trade_returns = ExampleReturns
    /\ metrics.record.total_return = Fin(4647, 1000000)
    /\ metrics.record.win_rate = Fin(2, 3)

\* C14 as stated: the same, with the returns 0.01, -0.02, 0.015 giving a
\* total_return of about 0.003947 (0.003947 to six decimals).
C14_AsStated ==
    /\ TotalReturnAndWinRate
    /\ (MetricsRan /\ trade_returns = ExampleReturns) =>
          /\ LE(AbsF(Sub(metrics.record.total_return, Fin(3947, 1000000))),
                Fin(1, 2000000))
          /\ metrics.record.win_rate = Fin(2, 3)

RECURSIVE Peak(_)
\* the running maximum of the cumulative curve after i trades
Peak(i) == IF i = 1 THEN Growth(1) ELSE Maximum(Peak(i - 1), Growth(i))

Drawdown(i) == Div(Sub(Growth(i), Peak(i)), Peak(i))

\* max_drawdown is the least of the drawdowns and is a number <= 0
WorstDrawdown ==
    /\ LE(metrics.record.max_drawdown, Int2F(0))
    /\ \E i \in 1..NumTrades : metrics.record.max_drawdown = Drawdown(i)
    /\ \A i \in 1..NumTrades : LE(metrics.record.max_drawdown, Drawdown(i))

\* C15: for a non-empty returns list max_drawdown is the minimum over i of
\* (C_i - running_max_i) / running_max_i and is a number <= 0, also when a
\* return is <= -1.
C15_MaxDrawdownIsWorst ==
    (MetricsRan /\ NumTrades > 0) => WorstDrawdown

\* the part of C15 that holds: when the running maximum is never 0
C15_WorstWhenPeakNotZero ==
    (MetricsRan /\ NumTrades > 0 /\ \A i \in 1..NumTrades : Peak(i) # Int2F(0)) =>
        WorstDrawdown

RECURSIVE SumOfSign(_, _)
\* the sum of the first i returns that have the sign s
SumOfSign(i, s) ==
    IF i = 0 THEN Int2F(0)
    ELSE Add(SumOfSign(i - 1, s),
             IF SignInt(trade_returns[i].n) = s THEN trade_returns[i] ELSE Int2F(0))

\* C16: profit_factor is |sum of the strictly positive returns / sum of the
\* strictly negative returns| when the sum of the losses is not zero, and
\* +infinity when it is zero, also when there is no winning trade either.
C16_ProfitFactor ==
    (MetricsRan /\ NumTrades > 0) =>
        metrics.record.profit_factor =
            IF SumOfSign(NumTrades, -1) = Int2F(0) THEN Inf(1)
            ELSE AbsF(Div(SumOfSign(NumTrades, 1), SumOfSign(NumTrades, -1)))

\* every return is zero and the factor is +infinity
C16_Witness ==
    /\ MetricsRan
    /\ NumTrades > 1
    /\ \A i \in 1..NumTrades : trade_returns[i] = Int2F(0)
    /\ metrics.record.profit_factor = Inf(1)

\* volatility > 1e-8, for a volatility that is 0, infinite, NaN or a root
AboveFloor(v) ==
    IF v.k = "real" THEN ExceedsFloor(v.e[2]) ELSE v.k = "inf" /\ v.n > 0

\* C17: volatility is 0 for a single trade; sharpe_ratio is annualized_return
\* / volatility when volatility > 1e-8 and 0 otherwise, so 0 for a single
\* trade and for identical returns; calmar_ratio is annualized_return /
\* |max_drawdown| when max_drawdown < 0 and 0 otherwise.
C17_GuardedRatios ==
    (MetricsRan /\ NumTrades > 0) =>
        LET m == metrics.record
        IN  /\ NumTrades <= 1 => m.volatility = Int2F(0)
            /\ m.sharpe_ratio =
                  IF AboveFloor(m.volatility)
                  THEN Quotient(m.annualized_return, m.volatility)
                  ELSE Int2F(0)
            /\ (NumTrades = 1 \/ \A i \in 1..NumTrades : trade_returns[i] = trade_returns[1])
                  => m.sharpe_ratio = Int2F(0)
            /\ m.calmar_ratio =
                  IF LT(m.max_drawdown, Int2F(0))
                  THEN Quotient(m.annualized_return, AbsF(m.max_drawdown))
                  ELSE Int2F(0)

\* both ratios computed: a volatility above the floor and a drawdown below 0
C17_Witness ==
    /\ MetricsRan
    /\ NumTrades > 1
    /\ AboveFloor(metrics.record.volatility)
    /\ LT(metrics.record.max_drawdown, Int2F(0))
    /\ metrics.record.sharpe_ratio.k = "real"
    /\ metrics.record.calmar_ratio.k = "real"

(***************************************************************************)
(* The sweep over the pairs get_optimization_parameters builds.            *)
(***************************************************************************)
MaxCandidates == 2

\* windows and thresholds in minutes: from an event at 100 s or -20 s the
\* offsets 1, 2 and 10 reach an observation, the offset 5 only from -20 s
WindowCandidates == {Int2F(1), Int2F(2)}

ThresholdCandidates == {Int2F(2), Int2F(5), Int2F(10)}

\* non-empty lists of distinct candidates
CandidateLists(S) ==
    {c \in SeqsUpTo(S, MaxCandidates) :
        Len(c) > 0 /\ \A i, j \in 1..Len(c) : c[i] = c[j] => i = j}

SweepCloses == {Int2F(1), Int2F(2)}

\* one observation at each of the three times, in time order, the first at 1
SweepPriceTables ==
    {<<[unix_timestamp |-> 100, close |-> Int2F(1)],
       [unix_timestamp |-> 160, close |-> b],
       [unix_timestamp |-> 700, close |-> c]>> : b \in SweepCloses, c \in SweepCloses}

SweepNewsTables == NewsTables({Int2F(-20), Int2F(100)}, EventTokens, MaxEvents) \ {<<>>}

InitSweep ==
    /\ pc = "select"
    /\ price_df \in SweepPriceTables
    /\ news_df \in SweepNewsTables
    /\ selected_crypto = "BTC"
    /\ trading_costs \in SweepCostOptions
    /\ selected_windows \in CandidateLists(WindowCandidates)
    /\ selected_thresholds \in CandidateLists(ThresholdCandidates)
    /\ optimization_metric \in MetricObjectives
    /\ combinations = <<>>
    /\ window = Int2F(DefaultWindow)
    /\ threshold = Int2F(DefaultThreshold)
    /\ timestamps = <<>>
    /\ trade_returns = <<>>
    /\ Idle

\* the parameters are built; the sweep follows unless there is no valid pair
GetOptimizationParameters ==
    /\ pc = "select"
    /\ LET params == get_optimization_parameters(selected_windows, selected_thresholds,
                                                 optimization_metric)
       IN  /\ combinations' = params.combinations
           /\ pc' = IF params.value = "None" THEN "done" ELSE "start"
    /\ UNCHANGED <<price_df, news_df, selected_crypto, trading_costs, window, threshold,
                   timestamps, optimization_metric, trade_returns, selected_windows,
                   selected_thresholds, price_results, crypto_news, price_df_sorted,
                   backtest, optimization, reporting>>

NextSweep == GetOptimizationParameters \/ RunParameterOptimization

SpecSweep == InitSweep /\ [][NextSweep]_vars

(***************************************************************************)
(* Properties of the sweep.                                                *)
(***************************************************************************)
ParametersBuilt == pc \in {"start", "done"}

SweepRan == pc = "done" /\ optimization # NotRun

PairOf(r) == <<r.window, r.threshold>>

PairsOf(results) == [i \in 1..Len(results) |-> PairOf(results[i])]

\* the pairs <<i, j>> of a window and a threshold candidate, by position
Candidates == (1..Len(selected_windows)) \X (1..Len(selected_thresholds))

Retained == {c \in Candidates : GT(selected_thresholds[c[2]], selected_windows[c[1]])}

\* how many times a pair stands in a list
Occurrences(list, pair) == Cardinality({i \in 1..Len(list) : list[i] = pair})

\* C18: the pairs handed to the sweep are exactly the pairs of the cross
\* product of the candidates with threshold > window, each as often as the
\* product has it and none with threshold <= window, and every result the
\* sweep returns is for one of them.
C18_OnlyThresholdAboveWindow ==
    /\ ParametersBuilt =>
          /\ \A i \in 1..Len(combinations) : GT(combinations[i][2], combinations[i][1])
          /\ Len(combinations) = Cardinality(Retained)
          /\ \A c \in Candidates :
                Occurrences(combinations,
                            <<selected_windows[c[1]], selected_thresholds[c[2]]>>) =
                    IF c \in Retained
                    THEN Cardinality({d \in Retained :
                            /\ selected_windows[d[1]] = selected_windows[c[1]]
                            /\ selected_thresholds[d[2]] = selected_thresholds[c[2]]})
                    ELSE 0
    /\ SweepRan =>
          \A i \in 1..Len(optimization.results) :
              /\ GT(optimization.results[i].threshold, optimization.results[i].window)
              /\ \E k \in 1..Len(combinations) :
                    combinations[k] = PairOf(optimization.results[i])

\* a pair was discarded, a pair was retained, and the sweep returned a result
C18_Witness ==
    /\ SweepRan
    /\ Cardinality(Retained) > 0
    /\ Cardinality(Retained) < Cardinality(Candidates)
    /\ \E c \in Candidates : selected_thresholds[c[2]] = selected_windows[c[1]]
    /\ Len(optimization.results) > 0

\* the event has an observation within tolerance at its own time and at both
\* offsets of the pair
Resolves(e, pair) ==
    /\ WithinTolerance(e.unix_timestamp)
    /\ WithinTolerance(Add(e.unix_timestamp, Seconds(pair[1])))
    /\ WithinTolerance(Add(e.unix_timestamp, Seconds(pair[2])))

\* the number of events that trade under the pair
TradesOf(pair) ==
    Cardinality({i \in 1..Len(news_df) : Resolves(news_df[i], pair)})

\* C19: a pair that yields no trade is skipped and the sweep goes on: the
\* ranked list has one result for each evaluated pair with at least one trade
\* and none for a pair without, each result's trade count is >= 1 and is the
\* length of its returns list, and nothing is raised.
C19_ZeroTradePairsSkipped ==
    SweepRan =>
        /\ optimization.raised = "none"
        /\ \A k \in 1..Len(combinations) :
              Occurrences(PairsOf(optimization.results), combinations[k]) =
                  IF TradesOf(combinations[k]) > 0
                  THEN Occurrences(combinations, combinations[k])
                  ELSE 0
        /\ \A i \in 1..Len(optimization.results) :
              /\ optimization.results[i].trades >= 1
              /\ optimization.results[i].trades = Len(optimization.results[i].returns)
              /\ optimization.results[i].trades = TradesOf(PairOf(optimization.results[i]))
        /\ optimization.value = "None" <=>
              \A k \in 1..Len(combinations) : TradesOf(combinations[k]) = 0

\* a pair without a trade stands before a pair with trades, which is ranked
C19_Witness ==
    /\ SweepRan
    /\ Len(combinations) > 1
    /\ TradesOf(combinations[1]) = 0
    /\ TradesOf(combinations[Len(combinations)]) > 0
    /\ optimization.value = "list"
    /\ Len(optimization.results) < Len(combinations)

Key(i) == optimization.results[i].optimization_metric

\* the list is in non-increasing order of the objective, as far as the model
\* knows the order of two values
NonIncreasing ==
    \A i, j \in 1..Len(optimization.results) :
        i < j => Order(Key(i), Key(j)) \in {"gt", "eq", "unknown"}

\* each objective value is the metric of the result's own returns
OwnObjective ==
    \A i \in 1..Len(optimization.results) :
        Key(i) = calculate_performance_metrics(optimization.results[i].returns)
                    [optimization_metric]

\* C20: for each of the five objectives the returned list is in non-increasing
\* order of the objective value, each result's objective value is that metric
\* of the result's own returns, and the first entry has the greatest objective
\* value of all results.
C20_RankedByObjective ==
    (SweepRan /\ optimization.value = "list") =>
        /\ NonIncreasing
        /\ OwnObjective
        /\ \A j \in 2..Len(optimization.results) :
              Order(Key(1), Key(j)) \in {"gt", "eq", "unknown"}

\* the part of C20 that holds: when no objective value is NaN
C20_RankedWhenNoNaN ==
    (SweepRan /\ optimization.value = "list"
        /\ \A i \in 1..Len(optimization.results) : ~IsNaN(Key(i))) =>
        NonIncreasing /\ OwnObjective

\* the place of a result's pair in the list of combinations
PlaceOf(r) == CHOOSE k \in 1..Len(combinations) : combinations[k] = PairOf(r)

\* the pair has the lower window, or the same window and the lower threshold
LowerPair(p, q) == LT(p[1], q[1]) \/ (p[1] = q[1] /\ LT(p[2], q[2]))

\* C21: of two combinations with the same objective value the one with the
\* lower window, then the lower threshold, ranks first.
C21_TiesLowerPairFirst ==
    (SweepRan /\ optimization.value = "list") =>
        \A i, j \in 1..Len(optimization.results) :
            (i < j /\ Order(Key(i), Key(j)) = "eq") =>
                LowerPair(PairOf(optimization.results[i]), PairOf(optimization.results[j]))

\* the part of C21 that holds: results with the same objective value keep the
\* order in which their pairs were enumerated
C21_TiesKeepEnumerationOrder ==
    (SweepRan /\ optimization.value = "list") =>
        \A i, j \in 1..Len(optimization.results) :
            (i < j /\ Order(Key(i), Key(j)) = "eq") =>
                PlaceOf(optimization.results[i]) < PlaceOf(optimization.results[j])

(***************************************************************************)
(* What the caller of the optimizer gets when nothing was ranked.          *)
(***************************************************************************)
\* what run_parameter_optimization hands to its caller
Outcome(o) == [raised |-> o.raised, value |-> o.value, results |-> o.results]

\* the outcomes of the same call on a news table without any event
OutcomesWithoutEvents ==
    UNION {{Outcome(o) : o \in run_parameter_optimization(
                                   ps, <<>>, selected_crypto, trading_costs,
                                   combinations, optimization_metric)} :
           ps \in sort_values(price_df)}

\* the outcomes of the same call when the filter raises inside the sweep
OutcomesOfInternalError ==
    UNION {{Outcome(o) : o \in run_parameter_optimization(
                                   ps, ns, "XRP", trading_costs,
                                   combinations, optimization_metric)} :
           ps \in sort_values(price_df), ns \in sort_values(news_df)}

\* events matched the asset and every evaluated pair ended without a trade
EveryPairWithoutTrades ==
    /\ OptimizerRan
    /\ selected_crypto \in {"BTC", "ETH"}
    /\ Len(crypto_news.rows) > 0
    /\ Len(price_df) > 0
    /\ NoneResolved

\* C22: when every evaluated pair yields zero trades the optimizer reports an
\* outcome of its own, which is neither the outcome of a request without
\* matching events nor the outcome of an internal error.
C22_NoValidCombinationsIsDistinct ==
    EveryPairWithoutTrades =>
        /\ Outcome(optimization) \notin OutcomesWithoutEvents
        /\ Outcome(optimization) \notin OutcomesOfInternalError

(***************************************************************************)
(* The order of the rows of the supplied price table.                      *)
(***************************************************************************)
\* the tables with the rows of the given table in each of their orders
Reordered(table) ==
    {[i \in 1..Len(table) |-> table[f[i]]] : f \in Permutations1(Len(table))}

Ascending(series) ==
    \A i \in 1..(Len(series) - 1) : series[i].unix_timestamp < series[i + 1].unix_timestamp

\* some event passed the filter, so that the price series was prepared
SeriesPrepared ==
    /\ pc = "done"
    /\ crypto_news.status = "ok"
    /\ Len(crypto_news.rows) > 0
    /\ (backtest # NotRun \/ optimization # NotRun)

\* the trades of the filtered events on each order of the price rows
SameBacktestForEveryOrder ==
    \A table \in Reordered(price_df) :
        \A ps \in sort_values(table) :
            backtest = PriceEvents(ps, crypto_news.rows, trading_costs, window, threshold)

\* the ranking of the filtered events on each order of the price rows
SameSweepForEveryOrder ==
    \E ns \in sort_values(news_df) :
        \A table \in Reordered(price_df) :
            \A ps \in sort_values(table) :
                optimization \in run_parameter_optimization(
                                     ps, ns, selected_crypto, trading_costs,
                                     combinations, optimization_metric)

\* the series handed to the resolver and the outcome built on it
SortedBeforeUse ==
    SeriesPrepared =>
        /\ Ascending(price_df_sorted)
        /\ price_df_sorted \in Reordered(price_df)
        /\ (backtest # NotRun) => SameBacktestForEveryOrder
        /\ (optimization # NotRun) => SameSweepForEveryOrder

\* C23: the series given to the resolver by execute_backtest_strategy and by
\* the optimizer is ascending in the timestamp whatever the order of the rows
\* of the supplied table, the outcome is the same for every order of these
\* rows, and the supplied table keeps its order.
C23_PricesSortedBeforeUse == []SortedBeforeUse /\ [][price_df' = price_df]_vars

\* price rows supplied in descending order, and a trade built on them
C23_Witness ==
    /\ SeriesPrepared
    /\ Len(price_df) > 1
    /\ \A i \in 1..(Len(price_df) - 1) :
          price_df[i].unix_timestamp > price_df[i + 1].unix_timestamp
    /\ \/ (backtest # NotRun /\ Len(backtest.rows) > 0)
       \/ (optimization # NotRun /\ optimization.value = "list")

(***************************************************************************)
(* The order of the queries, of the events and of the trades.              *)
(***************************************************************************)
\* the resolver asked about the one event alone, on the prepared series
ResolvedAlone(t) ==
    get_prices_at_timestamps(price_df_sorted, <<t.unix_timestamp>>, window, threshold).rows[1]

\* the places of the filtered events that became trades, in ascending order
TradedPlaces(places) ==
    /\ Len(places) = Len(backtest.rows)
    /\ \A i \in 1..Len(places) :
          /\ places[i] \in 1..Len(crypto_news.rows)
          /\ backtest.rows[i].row = crypto_news.rows[places[i]].row
          /\ backtest.rows[i].unix_timestamp = crypto_news.rows[places[i]].unix_timestamp
    /\ \A i \in 1..(Len(places) - 1) : places[i] < places[i + 1]

\* C24: each trade carries the timestamp of its own event and the three prices
\* the resolver finds for that timestamp, for whatever rows of the news table
\* the events came from, and the trades are in the order of the filtered
\* events.
C24_OrderPreserved ==
    EventsFiltered =>
        /\ \E places \in SeqsUpTo(1..Len(crypto_news.rows), Len(crypto_news.rows)) :
              TradedPlaces(places)
        /\ \A i \in 1..Len(backtest.rows) :
              /\ backtest.rows[i].price_current =
                     ResolvedAlone(backtest.rows[i]).price_current
              /\ backtest.rows[i].price_window =
                     ResolvedAlone(backtest.rows[i]).price_window
              /\ backtest.rows[i].price_threshold =
                     ResolvedAlone(backtest.rows[i]).price_threshold

\* two events in descending order in the news table, both traded in ascending
\* order on different prices
C24_Witness ==
    /\ EventsFiltered
    /\ RowIds(backtest.rows) = <<1, 0>>
    /\ backtest.rows[1].unix_timestamp # backtest.rows[2].unix_timestamp
    /\ backtest.rows[1].price_window # backtest.rows[2].price_window

(***************************************************************************)
(* How often the events are filtered in one call of the optimizer.         *)
(***************************************************************************)
\* C25: in one call of run_parameter_optimization the filter is invoked
\* exactly once, whatever the number of combinations and the outcome.
C25_FilterInvokedOnce ==
    OptimizerRan => optimization.filter_calls = 1

\* the part of C25 that holds: a call that ends on the vectorised sweep has
\* filtered once, and a call that ends on the fallback once more for each pair
C25_OncePlusOncePerFallbackPair ==
    OptimizerRan =>
        optimization.filter_calls =
            IF optimization.path = "efficient" THEN 1 ELSE 1 + Len(combinations)

(***************************************************************************)
(* The sweep with the objective max_drawdown, which the menu of            *)
(* get_optimization_parameters does not offer and a caller passes itself.  *)
(***************************************************************************)
DrawdownCloses == {Int2F(2), Int2F(3), Int2F(4)}

\* one observation at each of the three times, in time order
DrawdownPriceTables ==
    {<<[unix_timestamp |-> 100, close |-> a],
       [unix_timestamp |-> 160, close |-> b],
       [unix_timestamp |-> 700, close |-> c]>> :
        a \in DrawdownCloses, b \in DrawdownCloses, c \in DrawdownCloses}

DrawdownCombos == {BacktestCombo(1, 2), BacktestCombo(1, 10), BacktestCombo(2, 10)}

\* non-empty lists of distinct pairs
DrawdownComboLists ==
    {c \in SeqsUpTo(DrawdownCombos, MaxCombos) :
        Len(c) > 0 /\ \A i, j \in 1..Len(c) : c[i] = c[j] => i = j}

InitDrawdown ==
    /\ pc = "start"
    /\ price_df \in DrawdownPriceTables
    /\ news_df \in SweepNewsTables
    /\ selected_crypto = "BTC"
    /\ trading_costs = NoCosts
    /\ combinations \in DrawdownComboLists
    /\ optimization_metric = "max_drawdown"
    /\ window = Int2F(DefaultWindow)
    /\ threshold = Int2F(DefaultThreshold)
    /\ timestamps = <<>>
    /\ trade_returns = <<>>
    /\ selected_windows = <<>>
    /\ selected_thresholds = <<>>
    /\ Idle

NextDrawdown == RunParameterOptimization

SpecDrawdown == InitDrawdown /\ [][NextDrawdown]_vars

\* the results were ranked on max_drawdown and none of the values is NaN
RankedOnDrawdown ==
    /\ OptimizerRan
    /\ optimization.value = "list"
    /\ optimization_metric = "max_drawdown"
    /\ \A i \in 1..Len(optimization.results) : ~IsNaN(Key(i))

\* C26: with the objective max_drawdown the first entry has the max_drawdown
\* closest to zero of all results.
C26_TopDrawdownClosestToZero ==
    RankedOnDrawdown =>
        \A j \in 2..Len(optimization.results) :
            LE(AbsF(optimization.results[1].max_drawdown),
               AbsF(optimization.results[j].max_drawdown))

\* the part of C26 that holds: the list is in ascending order of max_drawdown,
\* which is the objective value of each result
C26_AscendingDrawdown ==
    RankedOnDrawdown =>
        /\ \A i \in 1..Len(optimization.results) :
              Key(i) = optimization.results[i].max_drawdown
        /\ \A i, j \in 1..Len(optimization.results) :
              i < j => LE(Key(i), Key(j))

(***************************************************************************)
(* The pairs of one sweep.                                                 *)
(***************************************************************************)
\* the entries of the pair evaluated alone on the filtered events
Alone(combo) ==
    EvaluatePair(price_df_sorted, crypto_news.rows, trading_costs, combo,
                 optimization_metric).entries

HasEntry(combo) == Len(Alone(combo)) > 0

\* the results of the sweep are those of its pairs, each evaluated alone
EachPairAsAlone ==
    (SweepRan /\ optimization.value = "list" /\ optimization.path = "efficient") =>
        /\ \A i \in 1..Len(optimization.results) :
              Alone(PairOf(optimization.results[i])) = <<optimization.results[i]>>
        /\ \A k \in 1..Len(combinations) :
              HasEntry(combinations[k]) =>
                  \E i \in 1..Len(optimization.results) :
                      PairOf(optimization.results[i]) = combinations[k]
        /\ Len(optimization.results) <= Len(combinations)

\* C27: the trades and metrics of each pair of a sweep are those of the pair
\* evaluated alone on the filtered events and the sorted prices, whatever
\* pairs were evaluated before it, and no step changes the caller's news
\* table or price table.
C27_PairsIndependent ==
    []EachPairAsAlone /\ [][news_df' = news_df /\ price_df' = price_df]_vars

\* a sweep of two pairs in which the first pair dropped an event for a missing
\* price and the second pair traded both events
C27_Witness ==
    /\ SweepRan
    /\ optimization.value = "list"
    /\ optimization.path = "efficient"
    /\ Len(combinations) = 2
    /\ Len(crypto_news.rows) = 2
    /\ Len(Alone(combinations[1])) = 1
    /\ Alone(combinations[1])[1].trades = 1
    /\ \E i \in 1..Len(optimization.results) :
          /\ PairOf(optimization.results[i]) = combinations[2]
          /\ optimization.results[i].trades = 2

(***************************************************************************)
(* The field names of the trade table.                                     *)
(***************************************************************************)
TradeFieldNames == {"token", "price_window", "price_threshold", "price_change_window"}

ColumnNames(b) == {b.columns[i] : i \in 1..Len(b.columns)}

\* C28: for every window and threshold, 1 and 10 included, the trade table
\* returned by execute_backtest_strategy has the fields token, price_window,
\* price_threshold and price_change_window.
C28_SameFieldNamesForEveryPair ==
    (BacktestRan /\ Len(backtest.rows) > 0) =>
        TradeFieldNames \subseteq ColumnNames(backtest)

\* the part of C28 that holds: the names are these for every pair other than
\* window 1 and threshold 10
C28_NamesUnlessDefaultPair ==
    (BacktestRan /\ Len(backtest.rows) > 0
        /\ ~(window = Int2F(DefaultWindow) /\ threshold = Int2F(DefaultThreshold))) =>
        TradeFieldNames \subseteq ColumnNames(backtest)

(***************************************************************************)
(* The vectorised sweep and the fallback on the same input.                *)
(***************************************************************************)
\* window, threshold, number of trades, returns and metric values of a result
Summary(r) ==
    [window |-> r.window, threshold |-> r.threshold, trades |-> r.trades,
     returns |-> r.returns, total_return |-> r.total_return,
     annualized_return |-> r.annualized_return, sharpe_ratio |-> r.sharpe_ratio,
     calmar_ratio |-> r.calmar_ratio, max_drawdown |-> r.max_drawdown,
     win_rate |-> r.win_rate, profit_factor |-> r.profit_factor,
     optimization_metric |-> r.optimization_metric]

\* what an optimizer returned: None, or the ranked summaries
Ranked(o) ==
    [value |-> o.value, results |-> [i \in 1..Len(o.results) |-> Summary(o.results[i])]]

\* the returns of the single backtest with the window and threshold of a result
StandaloneReturns(ps, ns, r) ==
    execute_backtest_strategy(ps, ns, selected_crypto, trading_costs,
                              r.window, r.threshold).returns

\* on one outcome of the two sorts, both optimizers called on the input
SameRanking(ps, ns) ==
    With(run_parameter_optimization_efficient(
             ps, ns, selected_crypto, trading_costs, combinations, optimization_metric),
         LAMBDA vectorised :
        /\ (\A o \in vectorised : o.caught = "none") =>
              {Ranked(o) : o \in vectorised} =
                  {Ranked(o) : o \in run_parameter_optimization_fallback(
                                         ps, ns, selected_crypto, trading_costs,
                                         combinations, optimization_metric)}
        /\ \A o \in vectorised : \A i \in 1..Len(o.results) :
              o.results[i].returns = StandaloneReturns(ps, ns, o.results[i]))

\* C29: when no exception occurs the vectorised optimizer and the fallback
\* return the same ranked sequence of window, threshold, trades, returns and
\* metric values, and the returns of each pair are those of a single backtest
\* with that window and threshold.
C29_FallbackEquivalent ==
    SweepRan =>
        \A ps \in sort_values(price_df) : \A ns \in sort_values(news_df) :
            SameRanking(ps, ns)

\* a sweep that ranked two pairs with trades under trading costs, which the
\* fallback ranks the same way
C29_Witness ==
    /\ SweepRan
    /\ optimization.value = "list"
    /\ optimization.path = "efficient"
    /\ trading_costs # NoCosts
    /\ Len(optimization.results) = 2
    /\ Key(1) # Key(2)
    /\ \E ps \in sort_values(price_df) : \E ns \in sort_values(news_df) :
          Ranked(optimization) \in
              {Ranked(o) : o \in run_parameter_optimization_fallback(
                                     ps, ns, selected_crypto, trading_costs,
                                     combinations, optimization_metric)}

(***************************************************************************)
(* A sweep in which one pair cannot be evaluated: a caller passes a pair   *)
(* whose window is None.                                                   *)
(***************************************************************************)
IsolationCombos ==
    {BacktestCombo(DefaultWindow, DefaultThreshold), BacktestCombo(2, DefaultThreshold),
     <<NoneValue, Int2F(DefaultThreshold)>>}

\* non-empty lists of distinct pairs
IsolationComboLists ==
    {c \in SeqsUpTo(IsolationCombos, MaxCombos) :
        Len(c) > 0 /\ \A i, j \in 1..Len(c) : c[i] = c[j] => i = j}

InitIsolation ==
    /\ pc = "start"
    /\ price_df \in SweepPriceTables
    /\ news_df \in SweepNewsTables
    /\ selected_crypto = "BTC"
    /\ trading_costs \in SweepCostOptions
    /\ combinations \in IsolationComboLists
    /\ optimization_metric \in MetricObjectives
    /\ window = Int2F(DefaultWindow)
    /\ threshold = Int2F(DefaultThreshold)
    /\ timestamps = <<>>
    /\ trade_returns = <<>>
    /\ selected_windows = <<>>
    /\ selected_thresholds = <<>>
    /\ Idle

NextIsolation == RunParameterOptimization

SpecIsolation == InitIsolation /\ [][NextIsolation]_vars

\* the optimizer called on the one pair returns a list
EvaluatesAlone(combo) ==
    \A ps \in sort_values(price_df) : \A ns \in sort_values(news_df) :
        \A o \in run_parameter_optimization(ps, ns, selected_crypto, trading_costs,
                                            <<combo>>, optimization_metric) :
            o.value = "list"

\* the vectorised sweep on the input of the call returns None
SweepReturnsNone ==
    \E ps \in sort_values(price_df) : \E ns \in sort_values(news_df) :
        \E o \in run_parameter_optimization_efficient(
                     ps, ns, selected_crypto, trading_costs, combinations,
                     optimization_metric) :
            o.value = "None"

C30_FallbackIffSweepReturnedNone ==
    OptimizerRan => (optimization.path = "fallback" <=> SweepReturnsNone)


====
